---- MODULE Spec2Model ----
(***************************************************************************)
(* vpnctl: the controller's registry, address allocator, readiness oracle  *)
(* and endpoint observer (internal/controller/server.go), and the agent's  *)
(* peer reconciler (internal/agent, Run).                                  *)
(*                                                                         *)
(* Controller handlers run concurrently; each handler is a small process   *)
(* whose steps are cut at the points where the registry mutex is taken or  *)
(* released and where the HTTP reply is written.  The agent's run loop is  *)
(* a sequential select loop: one action per case of the select.            *)
(***************************************************************************)
EXTENDS Integers, Sequences, FiniteSets, TLC

\* ------------------------------------------------------------------------
\* Bounds of the model
\* ------------------------------------------------------------------------
\* The overlay prefix has 2^HostBits addresses (10.7.0.0/30 for HostBits 2).
HostBits == 2
\* The clock runs from 0 to MaxTime (unit: one minute).
MaxTime == 4
\* At most MaxProbes health probes are followed in one run of the agent.
MaxProbes == 5
\* At most MaxSamples samples are submitted in Metrics requests in all,
\* at most MaxBatch of them in one request.
MaxSamples == 4
MaxBatch == 2
\* The marshalled registry is at most MaxData pieces long.
MaxData == 3
\* Each caller makes at most MaxCalls calls of ProbeSTUN, and at most
\* MaxStunMsgs STUN messages are counted in the pipe of one call.
MaxCalls == 2
MaxStunMsgs == 2
\* Classify is given at most MaxAddrs mapped addresses.
MaxAddrs == 4

\* ------------------------------------------------------------------------
\* Value domains
\* ------------------------------------------------------------------------
Names == {"a", "b", "c"}
Handlers == {"h1", "h2"}

\* Each node has its own WireGuard key (NodeConfig.WGPublicKey).
KeyOf(n) == "K_" \o n
Keys == {KeyOf(n) : n \in Names}

\* An overlay address string: the 32-bit address and the form it is written in.
\*   "bare" : a.b.c.d     "/32" : a.b.c.d/32     "/24" : a.b.c.d/24
\*   "empty": the empty string
IP(a, s) == [addr |-> a, sfx |-> s]
NoIP == IP(0, "empty")

\* cfg.VPNCIDR: unset (""), or a prefix with base address and host bits.
CidrUnset == [set |-> FALSE, base |-> 0, host |-> 0]
\* base 1024 stands for 10.7.0.0
CidrOverlay == [set |-> TRUE, base |-> 1024, host |-> HostBits]
CidrChoices == {CidrUnset, CidrOverlay}

RECURSIVE Pow2(_)
Pow2(n) == IF n = 0 THEN 1 ELSE 2 * Pow2(n - 1)

\* ------------------------------------------------------------------------
\* State
\* ------------------------------------------------------------------------
VARIABLES
    cfgCIDR,    \* Server.cfg.VPNCIDR
    cfgWGApply, \* Server.cfg.WGApply
    cfgServerSet, \* Server.cfg: ServerPublicKey, ServerEndpoint, ServerAllowedIPs are set
    cfgP2PReadyMode, \* Server.cfg.P2PReadyMode
    reg,        \* Server.reg.Nodes: sequence of NodeInfo
    regFile,    \* content of registry.yaml
    mu,         \* Server.mu: TRUE when locked (a Go mutex has no owner)
    crashed,    \* the controller process died (fatal: unlock of unlocked mutex)
    directOK,   \* Server.directOK: [node -> [peer -> last success or -1]]
    now,        \* the clock
    wgDump,     \* `wg show <iface> dump`: raw endpoint column per public key
    wgOK,       \* whether `wg show <iface> dump` currently succeeds
    hubPeers,   \* peer set last synced to the hub interface by applyWG
    hpc,        \* per handler: position in its handler function
    hreq,       \* per handler: decoded request
    hloc,       \* per handler: local variables
    hresp,      \* per handler: reply written to the client
    csv,        \* content of metrics.csv: the row halves written so far
    metricsMu,  \* Server.metricsMu: TRUE when locked
    mbuf,       \* per handler: what AppendCSV has still to write to the file
    mtotal,     \* number of samples submitted in Metrics requests so far
    fsPath,     \* the file at the registry path, or NoFile
    fsTmp,      \* the temporary file of atomicWriteFile, or NoFile
    savePc,     \* SaveRegistry: position in atomicWriteFile
    saveData,   \* SaveRegistry: the marshalled registry being written
    savePrev,   \* the file at the registry path when this save began
    agtCfg,       \* agent: its NodeConfig (after fillServerConfig)
    candidates,   \* agent Run: candidates, the list of the latest successful fetch
    activePeers,  \* agent Run: activePeers, the last-applied set (peer id -> Peer)
    desired,      \* agent Run: desired, as built by the latest reconcile tick
    wgConf,       \* peer sections last synced to the node's interface (wg syncconf)
    policyRoutes, \* routes in the node's policy routing table
    applyCalls,   \* ApplyPeers calls made by the latest reconcile tick, with outcome
    tickCands,    \* the candidate list the latest reconcile tick used
    tickNo,       \* 0 before the first reconcile tick, then alternating 1, 2
    tickProbes,   \* ids of the candidates the latest reconcile tick sent a probe to, in order
    tickResults,  \* DirectResults the latest reconcile tick submitted, in order
    candidatesB,  \* agent Run on node "b": candidates
    activePeersB, \* agent Run on node "b": activePeers
    supPc,          \* nodeServe: position in its loop; "none" when Run was started by node run
    runPc,          \* agent.Run: "idle", "starting", "running" or "returned"
    runErr,         \* agent.Run: the error it returned
    ctxDone,        \* the process context is cancelled
    healthFailures, \* agent Run: healthFailures
    healthLog,      \* outcomes of the health probes of this Run, oldest first
    healthC,        \* agent Run: healthC is the channel of a live ticker (not nil)
    iterLog,        \* what the current iteration of nodeServe has done so far
    errLog,         \* messages nodeServe wrote to stderr
    stunWriter,     \* Shared.stunWriter: the pipe of the STUN transaction, or NoPipe
    spc,            \* per caller of Shared.ProbeSTUN: position in the call
    sres,           \* per caller: what its latest ProbeSTUN call returned
    scall,          \* per caller: number of ProbeSTUN calls started so far
    spipe,          \* per caller: the pipe of its latest call (open, messages received)
    rlW,            \* Shared.readLoop: w, the writer it read under the lock, or NoPipe
    addrs,          \* stunutil.Classify: its argument, the mapped addresses
    natClass,       \* stunutil.Classify: what it returned, "none" before the call
    probeArgs,      \* addrutil.ProbeAddr: publicAddr, endpoint, probePort
    probeRet        \* addrutil.ProbeAddr: what it returned, NotCalled before the call

\* handleMetrics and the CSV file.
metVars == <<csv, metricsMu, mbuf, mtotal>>

\* SaveRegistry and the files it works on.
fsVars == <<fsPath, fsTmp, savePc, saveData, savePrev>>

ctlVars == <<metVars, fsVars, cfgP2PReadyMode, cfgCIDR, cfgWGApply, cfgServerSet, reg, regFile, mu, crashed, directOK, now,
             wgDump, wgOK, hubPeers, hpc, hreq, hloc, hresp>>

agtVars == <<agtCfg, candidates, activePeers, desired, wgConf, policyRoutes,
             applyCalls, tickCands, tickNo, tickProbes, tickResults, candidatesB, activePeersB>>

\* The run loop of the agent on node "b".
peerVars == <<candidatesB, activePeersB>>

supVars == <<supPc, runPc, runErr, ctxDone, healthFailures, healthLog, healthC, iterLog, errLog>>

\* Everything that lives on the node.
stunVars == <<stunWriter, spc, sres, scall, spipe, rlW>>

fnVars == <<addrs, natClass, probeArgs, probeRet>>

nodeVars == <<agtVars, supVars, stunVars, fnVars>>

vars == <<ctlVars, agtVars, supVars, stunVars, fnVars>>

\* ------------------------------------------------------------------------
\* Requests, replies, locals
\* ------------------------------------------------------------------------
NoReq == [kind |-> "none", name |-> "", pubKey |-> "", vpnIP |-> NoIP,
          endpoint |-> "", publicAddr |-> "", natType |-> "", probePort |-> 0,
          nodeID |-> "", peerID |-> "", success |-> FALSE, samples |-> 0]

RegisterRequest(n, k, ip, ep, pa, pp) ==
    [NoReq EXCEPT !.kind = "register", !.name = n, !.pubKey = k, !.vpnIP = ip,
                  !.endpoint = ep, !.publicAddr = pa, !.probePort = pp]

\* A reply: status 0 means nothing has been written yet.
NoResp == [status |-> 0, err |-> "", nodeID |-> "", vpnIP |-> NoIP, peers |-> <<>>]

NoLoc == [assigned |-> NoIP, locked |-> FALSE, held |-> 0, nodeID |-> "",
          peers |-> <<>>, wgPeers |-> <<>>, afterFail |-> FALSE, sub |-> 0,
          raced |-> FALSE, snap |-> <<>>]

\* The locals of a handler that has returned (afterFail is a history mark).
Returned(loc) == [NoLoc EXCEPT !.afterFail = loc.afterFail]

NodeInfo(id, n, k, ip, ep, pa, nat, pp) ==
    [id |-> id, name |-> n, pubKey |-> k, vpnIP |-> ip, endpoint |-> ep,
     publicAddr |-> pa, natType |-> nat, probePort |-> pp]

\* ------------------------------------------------------------------------
\* Pure helpers of the controller
\* ------------------------------------------------------------------------
\* netip.ParsePrefix / netip.ParseAddr of a stored vpn_ip: both give the address.
Parses(ip) == ip.sfx \in {"bare", "/32", "/24"}

usedAddrs(nodes) ==
    {nodes[i].vpnIP.addr : i \in {j \in 1..Len(nodes) : Parses(nodes[j].vpnIP)}}

\* addIPv4: uint32 addition.  The base is the masked prefix address and the
\* offset is below the prefix size, so the sum never wraps.
addIPv4(base, offset) == base + offset

MaxCidrSize == 1048576

\* The host loop taking the first offset whether or not its address is in use.
firstFree_IgnoreUsed(base, i, size, used) ==
    IF ~(i < size - 1) THEN 0 ELSE i

\* The host loop of allocateVPNIP, for i := 1; i < size-1; i++ : the first
\* offset from i on whose address is not in use, 0 when the loop runs out.
RECURSIVE firstFree(_, _, _, _)
firstFree(base, i, size, used) ==
    IF ~(i < size - 1) THEN 0
    ELSE IF addIPv4(base, i) \notin used THEN i
    ELSE firstFree(base, i + 1, size, used)

\* allocateVPNIP with the host loop starting at the network address.
allocateVPNIP_FromZero(cidr, nodes) ==
    IF ~cidr.set THEN [ok |-> FALSE, ip |-> NoIP]
    ELSE LET size == Pow2(cidr.host)
             free == {i \in 0..(size - 2) : addIPv4(cidr.base, i) \notin usedAddrs(nodes)}
         IN  IF free = {} THEN [ok |-> FALSE, ip |-> NoIP]
             ELSE LET i == CHOOSE x \in free : \A y \in free : x <= y
                  IN  [ok |-> TRUE, ip |-> IP(addIPv4(cidr.base, i), "/32")]

\* allocateVPNIP: first host of the prefix, network and broadcast skipped, not in use.
\* size is an int of 64 bits: 1 << (32 - ones) never wraps.
allocateVPNIP(cidr, nodes) ==
    IF ~cidr.set THEN [ok |-> FALSE, ip |-> NoIP]
    ELSE LET size == Pow2(cidr.host)
         IN  IF size > MaxCidrSize THEN [ok |-> FALSE, ip |-> NoIP]
             ELSE LET i == firstFree(cidr.base, 1, size, usedAddrs(nodes))
                  IN  IF i = 0 THEN [ok |-> FALSE, ip |-> NoIP]
                      ELSE [ok |-> TRUE, ip |-> IP(addIPv4(cidr.base, i), "/32")]

\* normalizeHostCIDR
normalizeHostCIDR(ip) ==
    IF ip = NoIP THEN NoIP
    ELSE IF ip.sfx # "bare" THEN ip
    ELSE IP(ip.addr, "/32")

TTL == 2

\* p2pReadyLocked looking at the a -> b direction only.
p2pReadyLocked_OneWay(a, b) ==
    LET ab == directOK[a]
    IN  IF ab[b] = -1 THEN FALSE
        ELSE IF now - ab[b] > TTL THEN FALSE
        ELSE TRUE

\* p2pReadyLocked: mutual success within the TTL.
p2pReadyLocked(a, b) ==
    LET ab == directOK[a]
        ba == directOK[b]
    IN  IF ab[b] = -1 \/ ba[a] = -1 THEN FALSE
        ELSE IF now - ab[b] > TTL \/ now - ba[a] > TTL THEN FALSE
        ELSE TRUE

PeerCandidate(node, ready) ==
    [id |-> node.id, name |-> node.name, pubKey |-> node.pubKey, vpnIP |-> node.vpnIP,
     endpoint |-> node.endpoint, publicAddr |-> node.publicAddr,
     natType |-> node.natType, probePort |-> node.probePort, p2pReady |-> ready]

RECURSIVE peersOf(_, _)
peersOf(nodes, nodeID) ==
    IF nodes = <<>> THEN <<>>
    ELSE LET node == Head(nodes)
             rest == peersOf(Tail(nodes), nodeID)
         IN  IF node.id = nodeID THEN rest
             ELSE <<PeerCandidate(node, p2pReadyLocked(nodeID, node.id))>> \o rest

\* peersLocked
peersLocked(nodeID) == peersOf(reg, nodeID)

RECURSIVE wgPeersOf(_)
wgPeersOf(nodes) ==
    IF nodes = <<>> THEN <<>>
    ELSE LET node == Head(nodes)
             rest == wgPeersOf(Tail(nodes))
         IN  IF node.pubKey = "" \/ node.vpnIP = NoIP THEN rest
             ELSE <<[publicKey |-> node.pubKey,
                     allowedIPs |-> <<normalizeHostCIDR(node.vpnIP)>>]>> \o rest

\* ParseWgDumpEndpoints: sentinel endpoints are dropped.
ParseWgDumpEndpoints(dump) ==
    [k \in DOMAIN dump |->
        IF dump[k] \in {"", "(none)", "0.0.0.0:0", "[::]:0"} THEN "" ELSE dump[k]]

\* Mutant of fillObservedEndpoints: the candidates are returned as stored.
fillObservedEndpoints_Skip(peers, ok, dump) == peers

\* fillObservedEndpoints, given the result of PeerEndpoints (ok = no read error).
fillObservedEndpoints(peers, ok, dump) ==
    LET m == ParseWgDumpEndpoints(dump)
    IN  IF ~ok \/ \A k \in DOMAIN m : m[k] = "" THEN peers
        ELSE [i \in 1..Len(peers) |->
                 IF peers[i].pubKey = "" THEN peers[i]
                 ELSE IF peers[i].pubKey \in DOMAIN m /\ m[peers[i].pubKey] # ""
                      THEN [peers[i] EXCEPT !.endpoint = m[peers[i].pubKey]]
                      ELSE peers[i]]

\* s.reg.Nodes after the upsert of handleRegister.
upsertNode(nodes, req, assigned) ==
    LET hits == {i \in 1..Len(nodes) : nodes[i].name = req.name}
    IN  IF hits # {}
        THEN LET i == CHOOSE x \in hits : \A y \in hits : x <= y
             IN  [nodes EXCEPT ![i] =
                     NodeInfo(IF nodes[i].id = "" THEN req.name ELSE nodes[i].id,
                              nodes[i].name, req.pubKey, assigned, req.endpoint,
                              req.publicAddr, req.natType, req.probePort)]
        ELSE Append(nodes, NodeInfo(req.name, req.name, req.pubKey, assigned,
                                    req.endpoint, req.publicAddr, req.natType,
                                    req.probePort))

\* The upsert of a handler that read s.reg.Nodes as seen while another handler
\* was inside the critical section too: the record it found is updated in
\* place, and when it found none it appends to the slice as it is now.
upsertSeen(nodes, seen, req, assigned) ==
    LET hits == {i \in 1..Len(seen) : seen[i].name = req.name}
    IN  IF hits # {}
        THEN LET i == CHOOSE x \in hits : \A y \in hits : x <= y
             IN  [nodes EXCEPT ![i] =
                     NodeInfo(IF nodes[i].id = "" THEN req.name ELSE nodes[i].id,
                              nodes[i].name, req.pubKey, assigned, req.endpoint,
                              req.publicAddr, req.natType, req.probePort)]
        ELSE Append(nodes, NodeInfo(req.name, req.name, req.pubKey, assigned,
                                    req.endpoint, req.publicAddr, req.natType,
                                    req.probePort))

nodeIDOf(nodes, name) ==
    LET hits == {i \in 1..Len(nodes) : nodes[i].name = name}
    IN  nodes[CHOOSE x \in hits : \A y \in hits : x <= y].id

\* ------------------------------------------------------------------------
\* Agent (node "a"): configuration and the functions of its run loop
\* ------------------------------------------------------------------------
\* nodeID returned by the agent's Register at start.
AgentID == "a"

DefaultKeepaliveSec == 25
DefaultDirectKeepaliveSec == 25
DefaultDirectKeepaliveSymmetricSec == 15
DefaultDirectKeepaliveUnknownSec == 20
DefaultProbePort == 51900
DefaultHealthCheckIntervalSec == 3
DefaultHealthCheckFailures == 3

NATTypeUnknown == "unknown"
NATTypeSymmetric == "symmetric"
NATTypeConeOrRestricted == "cone_or_restricted"

\* WGConfigResponse.ServerAllowedIPs: the overlay prefix routed through the hub.
HubAllowedIPs == <<IP(1024, "/24")>>

\* NodeConfig after ApplyDefaults and fillServerConfig. serverSet = FALSE is the
\* configuration left behind when the wg-config fetch failed.
NodeConfig(mode, serverSet, policy) ==
    [directMode |-> mode,
     wgPrivateKey |-> "priv_a",
     serverPublicKey |-> IF serverSet THEN "K_hub" ELSE "",
     serverEndpoint |-> IF serverSet THEN "hub:51820" ELSE "",
     serverAllowedIPs |-> IF serverSet THEN HubAllowedIPs ELSE <<>>,
     serverKeepaliveSec |-> DefaultKeepaliveSec,
     keepaliveSec |-> DefaultKeepaliveSec,
     directKeepaliveSec |-> DefaultDirectKeepaliveSec,
     directKeepaliveSymmetricSec |-> DefaultDirectKeepaliveSymmetricSec,
     directKeepaliveUnknownSec |-> DefaultDirectKeepaliveUnknownSec,
     policyRoutingEnabled |-> policy,
     probePort |-> DefaultProbePort,
     healthCheckIntervalSec |-> DefaultHealthCheckIntervalSec,
     healthCheckFailures |-> DefaultHealthCheckFailures]

NodeCfgDefault == NodeConfig("auto", TRUE, TRUE)
NodeCfgChoices ==
    {NodeCfgDefault, NodeConfig("off", TRUE, TRUE), NodeConfig("auto", FALSE, TRUE),
     NodeConfig("auto", TRUE, FALSE)}

\* The unscoped prefix 0.0.0.0/0.
DefaultRoute == IP(0, "/0")

\* hubProbeAddress(cfg) != "": the health settings are positive and the server
\* overlay has a scoped IPv4 prefix.
hubProbeAddress(cfg) ==
    /\ cfg.healthCheckIntervalSec > 0
    /\ cfg.healthCheckFailures > 0
    /\ \E i \in 1..Len(cfg.serverAllowedIPs) :
          cfg.serverAllowedIPs[i] \notin {NoIP, DefaultRoute}

\* healthC is a live ticker channel.
healthEnabled(cfg) == hubProbeAddress(cfg) /\ cfg.healthCheckIntervalSec > 0

\* The server fields a node configuration needs before the interface goes up.
serverFieldsSet(cfg) ==
    /\ cfg.serverPublicKey # ""
    /\ cfg.serverEndpoint # ""
    /\ cfg.serverAllowedIPs # <<>>

\* The fields handleWGConfig serves, written into the node configuration.
withServerFields(cfg) ==
    [cfg EXCEPT !.serverPublicKey = "K_hub",
                !.serverEndpoint = "hub:51820",
                !.serverAllowedIPs = HubAllowedIPs]

\* fillServerConfig in agent.Run: nothing to do when the three server fields
\* are set; else they are asked of the controller, and a failed call leaves
\* the configuration as it is.
fillServerConfig(cfg, fetchOK, served) ==
    IF serverFieldsSet(cfg) THEN cfg
    ELSE IF fetchOK /\ served THEN withServerFields(cfg)
    ELSE cfg

\* wireguard.Peer
Peer(pk, ep, ips, ka) ==
    [publicKey |-> pk, endpoint |-> ep, allowedIPs |-> ips, keepaliveSec |-> ka]

\* map[string]wireguard.Peer{}
NoPeers == [id \in {} |-> Peer("", "", <<>>, 0)]

\* m[k] = v on a Go map
MapPut(m, k, v) == [x \in DOMAIN m \cup {k} |-> IF x = k THEN v ELSE m[x]]

normalizeHostIP(value) ==
    IF value = NoIP THEN NoIP
    ELSE IF value.sfx \in {"/32", "/24"} THEN value
    ELSE IP(value.addr, "/32")

\* Mutant of directKeepalive: the empty class is taken as any other class.
directKeepalive_EmptyIsOther(cfg, natType) ==
    LET fallback == IF cfg.directKeepaliveSec > 0 THEN cfg.directKeepaliveSec
                    ELSE cfg.keepaliveSec
    IN  IF natType = "symmetric"
        THEN IF cfg.directKeepaliveSymmetricSec > 0
             THEN cfg.directKeepaliveSymmetricSec ELSE fallback
        ELSE IF natType = "unknown"
        THEN IF cfg.directKeepaliveUnknownSec > 0
             THEN cfg.directKeepaliveUnknownSec ELSE fallback
        ELSE fallback

directKeepalive(cfg, natType) ==
    LET fallback == IF cfg.directKeepaliveSec > 0 THEN cfg.directKeepaliveSec
                    ELSE cfg.keepaliveSec
    IN  IF natType \in {"", NATTypeSymmetric}
        THEN IF cfg.directKeepaliveSymmetricSec > 0
             THEN cfg.directKeepaliveSymmetricSec ELSE fallback
        ELSE IF natType = NATTypeUnknown
        THEN IF cfg.directKeepaliveUnknownSec > 0
             THEN cfg.directKeepaliveUnknownSec ELSE fallback
        ELSE fallback

\* Mutant of duplicateAllowedIP: no address is ever taken as a duplicate.
duplicateAllowedIP_Never(allowedOwner, allowedIP, id) == FALSE

\* `prev, ok := allowedOwner[allowedIP]; ok && prev != peer.ID`
duplicateAllowedIP(allowedOwner, allowedIP, id) ==
    allowedIP \in DOMAIN allowedOwner /\ allowedOwner[allowedIP] # id

\* Mutant of injectable: the public key is not looked at.
injectable_NoKeyCheck(inject, allowedIP, pubKey, wgEndpoint) ==
    inject /\ allowedIP # NoIP /\ wgEndpoint # ""

\* `inject && allowedIP != "" && peer.PubKey != "" && wgEndpoint != ""`
injectable(inject, allowedIP, pubKey, wgEndpoint) ==
    inject /\ allowedIP # NoIP /\ pubKey # "" /\ wgEndpoint # ""

\* The loop over candidates of the direct ticker: desired and allowedOwner.
RECURSIVE buildDesired(_, _, _, _)
buildDesired(cfg, cands, des, allowedOwner) ==
    IF cands = <<>> THEN des
    ELSE LET peer == Head(cands)
             wgEndpoint == peer.endpoint
             allowedIP == normalizeHostIP(peer.vpnIP)
             claims == peer.p2pReady /\ allowedIP # NoIP
             dup == claims /\ duplicateAllowedIP(allowedOwner, allowedIP, peer.id)
             inject == peer.p2pReady /\ ~dup
             owner2 == IF claims /\ ~dup THEN MapPut(allowedOwner, allowedIP, peer.id)
                       ELSE allowedOwner
             des2 == IF injectable(inject, allowedIP, peer.pubKey, wgEndpoint)
                     THEN MapPut(des, peer.id,
                                 Peer(peer.pubKey, wgEndpoint, <<allowedIP>>,
                                      directKeepalive(cfg, peer.natType)))
                     ELSE des
         IN  buildDesired(cfg, Tail(cands), des2, owner2)

\* addrutil.ProbeAddr succeeds
ProbeAddrOK(publicAddr, endpoint, probePort) ==
    probePort > 0 /\ (publicAddr # "" \/ endpoint # "")

\* Mutant of peersEqual: two sets never compare equal.
peersEqual_Never(a, b) == FALSE

peersEqual(a, b) ==
    /\ Cardinality(DOMAIN a) = Cardinality(DOMAIN b)
    /\ \A k \in DOMAIN a :
          /\ k \in DOMAIN b
          /\ a[k].publicKey = b[k].publicKey
          /\ a[k].endpoint = b[k].endpoint
          /\ a[k].keepaliveSec = b[k].keepaliveSec
          /\ a[k].allowedIPs = b[k].allowedIPs

\* peersFromMap that returns no peer.
peersFromMap_Empty(m) == {<<>>}

\* peersFromMap: the values of the map in any iteration order.
peersFromMap(m) ==
    LET n == Cardinality(DOMAIN m)
    IN  {[i \in 1..n |-> m[f[i]]] :
            f \in {g \in [1..n -> DOMAIN m] : \A i, j \in 1..n : i # j => g[i] # g[j]}}

\* The hub [Peer] section of RenderSetConf.
HubSection(cfg) ==
    Peer(cfg.serverPublicKey, cfg.serverEndpoint, cfg.serverAllowedIPs,
         cfg.serverKeepaliveSec)

RECURSIVE renderPeers(_)
renderPeers(peers) ==
    IF peers = <<>> THEN <<>>
    ELSE LET peer == Head(peers)
         IN  IF peer.publicKey = "" \/ peer.endpoint = "" \/ peer.allowedIPs = <<>>
             THEN renderPeers(Tail(peers))
             ELSE <<peer>> \o renderPeers(Tail(peers))

\* Mutant of RenderSetConf: the hub section is written only when there is no
\* direct peer.
RenderSetConf_PeersOnly(cfg, peers) ==
    [ok |-> TRUE,
     conf |-> IF renderPeers(peers) = <<>> THEN <<HubSection(cfg)>>
              ELSE renderPeers(peers)]

\* RenderSetConf: the [Peer] sections of the rendered configuration.
RenderSetConf(cfg, peers) ==
    IF \/ cfg.wgPrivateKey = ""
       \/ cfg.serverPublicKey = ""
       \/ cfg.serverEndpoint = ""
       \/ cfg.serverAllowedIPs = <<>>
    THEN [ok |-> FALSE, conf |-> <<>>]
    ELSE [ok |-> TRUE, conf |-> <<HubSection(cfg)>> \o renderPeers(peers)]

RECURSIVE allowedCIDRs(_)
allowedCIDRs(peers) ==
    IF peers = <<>> THEN <<>>
    ELSE Head(peers).allowedIPs \o allowedCIDRs(Tail(peers))

\* Commands ApplyPeers runs after rendering: 1 wg syncconf, 2 ip rule add,
\* 3 ip route flush, 3+k the k-th ip route replace.
applySteps(cfg, peers) ==
    IF cfg.policyRoutingEnabled THEN 3 + Len(allowedCIDRs(peers)) ELSE 1

\* Manager.ApplyPeers on interface state (conf, routes); failStep = 0 when every
\* command succeeds, else the number of the command that fails.
ApplyPeers(cfg, peers, failStep, conf, routes) ==
    LET r == RenderSetConf(cfg, peers)
        cidrs == allowedCIDRs(peers)
        done == IF failStep = 0 THEN Len(cidrs) ELSE failStep - 4
    IN  IF ~r.ok \/ failStep = 1 THEN [ok |-> FALSE, conf |-> conf, routes |-> routes]
        ELSE IF ~cfg.policyRoutingEnabled
        THEN [ok |-> TRUE, conf |-> r.conf, routes |-> routes]
        ELSE IF failStep \in {2, 3}
        THEN [ok |-> FALSE, conf |-> r.conf, routes |-> routes]
        ELSE [ok |-> failStep = 0, conf |-> r.conf,
              routes |-> {cidrs[i] : i \in 1..done}]

\* ------------------------------------------------------------------------
\* The shared probe socket (internal/direct, Shared): ProbeSTUN and readLoop
\* ------------------------------------------------------------------------
\* Every access to Shared.stunWriter is made with Shared.mu held, and nothing
\* blocks while it is held: each critical section is one step.  A call of
\* ProbeSTUN is cut at the points where it waits: the select, and the two
\* deferred functions that run at its return.
Callers == {"g1", "g2"}

\* The stunL end of the pipe made by call number no of caller by.
Pipe(c, n) == [by |-> c, no |-> n]
NoPipe == Pipe("", 0)

\* What the select of ProbeSTUN returns.
StunOutcomes == {"addr", "error", "timeout", "cancelled"}

\* ProbeSTUN claiming the socket without looking at stunWriter.
ProbeSTUN_NoCheck(c, ok) ==
    /\ spc[c] = "idle"
    /\ scall[c] < MaxCalls
    /\ scall' = [scall EXCEPT ![c] = scall[c] + 1]
    /\ IF ~ok
       THEN /\ sres' = [sres EXCEPT ![c] = "error"]
            /\ UNCHANGED <<stunWriter, spc, spipe>>
       ELSE /\ stunWriter' = Pipe(c, scall[c] + 1)
            /\ spipe' = [spipe EXCEPT ![c] = [open |-> TRUE, got |-> 0]]
            /\ spc' = [spc EXCEPT ![c] = "inflight"]
            /\ UNCHANGED sres
    /\ UNCHANGED <<rlW, ctlVars, agtVars, supVars, fnVars>>

\* ProbeSTUN up to its select.  ok is FALSE when the call fails before it
\* reaches the socket: no socket, an empty or unresolvable server, no client.
\* Otherwise the pipe is made, and under the lock the call either finds a
\* writer installed and returns "stun probe already in progress" (the
\* deferred close shuts its own pipe), or installs its pipe as the writer.
ProbeSTUN(c, ok) ==
    /\ spc[c] = "idle"
    /\ scall[c] < MaxCalls
    /\ scall' = [scall EXCEPT ![c] = scall[c] + 1]
    /\ IF ~ok
       THEN /\ sres' = [sres EXCEPT ![c] = "error"]
            /\ UNCHANGED <<stunWriter, spc, spipe>>
       ELSE IF stunWriter # NoPipe
       THEN /\ sres' = [sres EXCEPT ![c] = "busy"]
            /\ spipe' = [spipe EXCEPT ![c] = [open |-> FALSE, got |-> 0]]
            /\ UNCHANGED <<stunWriter, spc>>
       ELSE /\ stunWriter' = Pipe(c, scall[c] + 1)
            /\ spipe' = [spipe EXCEPT ![c] = [open |-> TRUE, got |-> 0]]
            /\ spc' = [spc EXCEPT ![c] = "inflight"]
            /\ UNCHANGED sres
    /\ UNCHANGED <<rlW, ctlVars, agtVars, supVars, fnVars>>

\* The select of ProbeSTUN: the client is done (with the mapped address of a
\* response that reached its pipe, or with an error), the writer goroutine
\* failed, or the context timed out or was cancelled.
ProbeSTUNSelect(c, outcome) ==
    /\ spc[c] = "inflight"
    /\ outcome = "addr" => spipe[c].got > 0
    /\ sres' = [sres EXCEPT ![c] = outcome]
    /\ spc' = [spc EXCEPT ![c] = "ended"]
    /\ UNCHANGED <<stunWriter, scall, spipe, rlW, ctlVars, agtVars, supVars, fnVars>>

\* The deferred function that takes the lock and sets stunWriter to nil.
ProbeSTUNReset(c) ==
    /\ spc[c] = "ended"
    /\ stunWriter' = NoPipe
    /\ spc' = [spc EXCEPT ![c] = "closing"]
    /\ UNCHANGED <<sres, scall, spipe, rlW, ctlVars, agtVars, supVars, fnVars>>

\* The deferred function that closes the client and both ends of the pipe;
\* ProbeSTUN returns.
ProbeSTUNClose(c) ==
    /\ spc[c] = "closing"
    /\ spipe' = [spipe EXCEPT ![c].open = FALSE]
    /\ spc' = [spc EXCEPT ![c] = "idle"]
    /\ UNCHANGED <<stunWriter, sres, scall, rlW, ctlVars, agtVars, supVars, fnVars>>

\* readLoop: a STUN message is read from the socket and w is read under the
\* lock.  With w nil the loop goes on to the next packet (no step).
readLoopRead ==
    /\ rlW = NoPipe
    /\ stunWriter # NoPipe
    /\ rlW' = stunWriter
    /\ UNCHANGED <<stunWriter, spc, sres, scall, spipe, ctlVars, agtVars, supVars, fnVars>>

\* readLoop: w.Write, after the lock was released.  The message reaches the
\* client when w is still the open pipe of the caller's running call; a
\* write to a closed pipe fails and the error is dropped.
readLoopWrite ==
    /\ rlW # NoPipe
    /\ LET c == rlW.by
       IN  spipe' = IF scall[c] = rlW.no /\ spipe[c].open /\ spipe[c].got < MaxStunMsgs
                    THEN [spipe EXCEPT ![c].got = spipe[c].got + 1]
                    ELSE spipe
    /\ rlW' = NoPipe
    /\ UNCHANGED <<stunWriter, spc, sres, scall, ctlVars, agtVars, supVars, fnVars>>

\* ------------------------------------------------------------------------
\* Pure functions of the agent: stunutil.Classify and addrutil.ProbeAddr
\* ------------------------------------------------------------------------
\* Mapped addresses as STUN servers report them.
MappedAddrs == {"198.51.100.7:40001", "198.51.100.7:40002", "203.0.113.9:40001"}

RECURSIVE SeqsUpTo(_, _)
SeqsUpTo(S, n) ==
    IF n = 0 THEN {<<>>}
    ELSE LET shorter == SeqsUpTo(S, n - 1)
         IN  shorter \cup {Append(q, x) : q \in {r \in shorter : Len(r) = n - 1}, x \in S}

\* Classify that compares only the second address with the first.
Classify_SecondOnly(as) ==
    IF Len(as) < 2 THEN NATTypeUnknown
    ELSE IF as[2] # as[1] THEN NATTypeSymmetric
    ELSE NATTypeConeOrRestricted

\* Classify: unknown below two addresses, symmetric when an address after
\* the first one differs from the first, cone_or_restricted otherwise.
Classify(as) ==
    IF Len(as) < 2 THEN NATTypeUnknown
    ELSE LET first == as[1]
             symmetric == \E i \in 2..Len(as) : as[i] # first
         IN  IF symmetric THEN NATTypeSymmetric ELSE NATTypeConeOrRestricted

\* An address string by its parts: the form it is written in, the host and
\* the port it names ("" and 0 when it names none).
Addr(form, host, port) == [form |-> form, host |-> host, port |-> port]
EmptyAddr == Addr("empty", "", 0)

NoProbeArgs == [publicAddr |-> EmptyAddr, endpoint |-> EmptyAddr, probePort |-> 0]
NotCalled == [called |-> FALSE, ok |-> FALSE, addr |-> EmptyAddr]

\* Address strings ProbeAddr is given.  A string with several colons, no
\* bracket and a number after the last colon is read by the code as an
\* unbracketed IPv6 host followed by a port: that is the form "v6:port".
Hosts4 == {"39.119.108.243", "192.0.2.7"}
Hosts6 == {"2001:db8::1"}
InPorts == {33134, 51820}
ProbePorts == {-1, 0, 51900}

AddrStrings ==
    {EmptyAddr, Addr("blank", "", 0)}
        \cup {Addr("host:port", h, p) : h \in Hosts4, p \in InPorts}
        \cup {Addr("[v6]:port", h, p) : h \in Hosts6, p \in InPorts}
        \cup {Addr("v6:port", h, p) : h \in Hosts6, p \in InPorts}
        \cup {Addr(":port", "", p) : p \in InPorts}
        \cup {Addr("host", h, 0) : h \in Hosts4}
        \cup {Addr("[v6]", h, 0) : h \in Hosts6}
        \cup {Addr("v6", "2001:db8::beef", 0)}

\* hostFromAddr: the string is trimmed; net.SplitHostPort succeeds on
\* host:port, [v6]:port and :port; an unbracketed string with several
\* colons and a number after the last one loses that tail; any other string
\* is taken whole, without brackets.
hostFromAddr(a) ==
    IF a.form \in {"empty", "blank"} THEN ""
    ELSE IF a.form \in {"host:port", "[v6]:port", ":port"} THEN a.host
    ELSE IF a.form = "v6:port" THEN a.host
    ELSE IF a.form \in {"[v6]", "v6"} THEN a.host
    ELSE a.host

\* net.JoinHostPort: brackets around a host that contains a colon.
JoinHostPort(host, port) ==
    Addr(IF host \in Hosts4 THEN "host:port" ELSE "[v6]:port", host, port)

\* ProbeAddr preferring the host of endpoint.
ProbeAddr_EndpointFirst(publicAddr, endpoint, probePort) ==
    IF probePort <= 0 THEN [called |-> TRUE, ok |-> FALSE, addr |-> EmptyAddr]
    ELSE LET h1 == IF endpoint.form \in {"empty", "blank"} THEN "" ELSE endpoint.host
             h2 == IF publicAddr.form \in {"empty", "blank"} THEN "" ELSE publicAddr.host
             host == IF h1 # "" THEN h1 ELSE h2
         IN  IF host = "" THEN [called |-> TRUE, ok |-> FALSE, addr |-> EmptyAddr]
             ELSE [called |-> TRUE, ok |-> TRUE,
                   addr |-> Addr(IF host \in {"39.119.108.243", "192.0.2.7"}
                                 THEN "host:port" ELSE "[v6]:port", host, probePort)]

\* ProbeAddr
ProbeAddr(publicAddr, endpoint, probePort) ==
    IF probePort <= 0 THEN [called |-> TRUE, ok |-> FALSE, addr |-> EmptyAddr]
    ELSE LET h1 == hostFromAddr(publicAddr)
             host == IF h1 = "" THEN hostFromAddr(endpoint) ELSE h1
         IN  IF host = "" THEN [called |-> TRUE, ok |-> FALSE, addr |-> EmptyAddr]
             ELSE [called |-> TRUE, ok |-> TRUE, addr |-> JoinHostPort(host, probePort)]

\* peerAddr, ok := addrutil.ProbeAddr(peer.PublicAddr, peer.Endpoint, peer.ProbePort)
ProbeAddrCall ==
    /\ ~probeRet.called
    /\ probeRet' = ProbeAddr(probeArgs.publicAddr, probeArgs.endpoint, probeArgs.probePort)
    /\ UNCHANGED <<addrs, natClass, probeArgs, ctlVars, agtVars, supVars, stunVars>>

\* No call of Classify or ProbeAddr is followed.
NoCall ==
    /\ addrs = <<>>
    /\ natClass = "none"
    /\ probeArgs = NoProbeArgs
    /\ probeRet = NotCalled

\* natType := Classify(results)
ClassifyCall ==
    /\ natClass = "none"
    /\ natClass' = Classify(addrs)
    /\ UNCHANGED <<addrs, probeArgs, probeRet, ctlVars, agtVars, supVars, stunVars>>

\* ------------------------------------------------------------------------
\* Initial state: NewServer on an empty data directory; the agent after up
\* ------------------------------------------------------------------------
\* p2p_ready_mode after ApplyDefaults: mutual|either
DefaultP2PReadyMode == "mutual"
P2PReadyModes == {DefaultP2PReadyMode, "either"}

\* No file: os.IsNotExist.
NoFile == [exists |-> FALSE, content |-> <<>>, mode |-> 0]

\* The state after start-up with the node configuration one of cfgs, but for
\* the position of agent.Run.
InitRun(cfgs, cidrs) ==
    /\ cfgP2PReadyMode \in P2PReadyModes
    /\ csv = <<>>
    /\ metricsMu = FALSE
    /\ mbuf = [h \in Handlers |-> <<>>]
    /\ mtotal = 0
    /\ fsPath = NoFile
    /\ fsTmp = NoFile
    /\ savePc = "idle"
    /\ saveData = <<>>
    /\ savePrev = NoFile
    /\ cfgCIDR \in cidrs
    /\ cfgWGApply \in BOOLEAN
    /\ cfgServerSet \in BOOLEAN
    /\ mu = FALSE
    /\ crashed = FALSE
    /\ directOK = [a \in Names |-> [b \in Names |-> -1]]
    /\ now = 0
    /\ wgOK = TRUE
    /\ hubPeers = <<>>
    /\ hpc = [h \in Handlers |-> "idle"]
    /\ hreq = [h \in Handlers |-> NoReq]
    /\ hloc = [h \in Handlers |-> NoLoc]
    /\ hresp = [h \in Handlers |-> NoResp]
    /\ agtCfg \in cfgs
    /\ candidates = <<>>
    /\ activePeers = NoPeers
    /\ desired = NoPeers
    /\ wgConf = RenderSetConf(agtCfg, <<>>).conf
    /\ policyRoutes = {}
    /\ applyCalls = <<>>
    /\ tickCands = <<>>
    /\ tickNo = 0
    /\ tickProbes = <<>>
    /\ tickResults = <<>>
    /\ candidatesB = <<>>
    /\ activePeersB = NoPeers
    /\ supPc \in {"none", "load"}
    /\ runErr = ""
    /\ ctxDone = FALSE
    /\ healthFailures = 0
    /\ healthLog = <<>>
    /\ iterLog = <<>>
    /\ errLog = {}
    /\ stunWriter = NoPipe
    /\ spc = [c \in Callers |-> "idle"]
    /\ sres = [c \in Callers |-> "none"]
    /\ scall = [c \in Callers |-> 0]
    /\ spipe = [c \in Callers |-> [open |-> FALSE, got |-> 0]]
    /\ rlW = NoPipe

\* Under nodeServe agent.Run has not been called yet; started by node run it
\* is in its loop, with the server fields it holds taken from its file.
InitWith(cfgs, cidrs) ==
    /\ InitRun(cfgs, cidrs)
    /\ runPc = IF supPc = "none" THEN "running" ELSE "idle"
    /\ healthC = (supPc = "none" /\ healthEnabled(agtCfg))

\* The controller configured with the overlay prefix or with none.
InitBase(cfgs) == InitWith(cfgs, CidrChoices) /\ NoCall

\* An empty registry and no peer seen on the hub interface.
Init ==
    /\ InitBase(NodeCfgChoices)
    /\ reg = <<>>
    /\ regFile = <<>>
    /\ wgDump = [k \in Keys |-> ""]

\* ------------------------------------------------------------------------
\* handleRegister
\* ------------------------------------------------------------------------
\* Decode and validate; a valid request goes on to s.mu.Lock().
RegisterStart(h, req) ==
    /\ ~crashed
    /\ hpc[h] = "idle"
    /\ hreq' = [hreq EXCEPT ![h] = req]
    /\ IF req.name = "" \/ req.pubKey = ""
       THEN /\ hresp' = [hresp EXCEPT ![h] = [NoResp EXCEPT !.status = 400, !.err = "required"]]
            /\ hloc' = [hloc EXCEPT ![h] = NoLoc]
            /\ UNCHANGED hpc
       ELSE /\ hresp' = [hresp EXCEPT ![h] = NoResp]
            /\ hloc' = [hloc EXCEPT ![h] =
                  [NoLoc EXCEPT !.assigned = req.vpnIP,
                                !.afterFail = \E g \in Handlers :
                                                 /\ hpc[g] = "idle"
                                                 /\ hresp[g].err = "alloc"
                                                 /\ hreq[g].name = req.name]]
            /\ hpc' = [hpc EXCEPT ![h] = "reg_wait"]
    /\ UNCHANGED nodeVars
    /\ UNCHANGED <<metVars, fsVars, cfgP2PReadyMode, cfgCIDR, cfgWGApply, cfgServerSet, reg, regFile, mu, crashed, directOK, now,
                   wgDump, wgOK, hubPeers>>

\* s.mu.Lock(); locked := true
RegisterLock(h) ==
    /\ ~crashed
    /\ hpc[h] = "reg_wait"
    /\ ~mu
    /\ mu' = TRUE
    /\ hloc' = [hloc EXCEPT ![h].locked = TRUE, ![h].held = 1]
    /\ hpc' = [hpc EXCEPT ![h] = "reg_body"]
    /\ UNCHANGED nodeVars
    /\ UNCHANGED <<metVars, fsVars, cfgP2PReadyMode, cfgCIDR, cfgWGApply, cfgServerSet, reg, regFile, crashed, directOK, now,
                   wgDump, wgOK, hubPeers, hreq, hresp>>

\* Two handlers are between Lock and Unlock at once (the mutex was released
\* under one of them by an Unlock that was not its own): this one reads
\* s.reg.Nodes, for the allocation and for the search by name, before the
\* other one writes. The accesses are not ordered by the lock any more.
RegisterScan(h) ==
    /\ ~crashed
    /\ hpc[h] = "reg_body"
    /\ ~hloc[h].raced
    /\ \E g \in Handlers \ {h} : hpc[g] = "reg_body"
    /\ hloc' = [hloc EXCEPT ![h].raced = TRUE, ![h].snap = reg]
    /\ UNCHANGED nodeVars
    /\ UNCHANGED <<metVars, fsVars, cfgP2PReadyMode, cfgCIDR, cfgWGApply, cfgServerSet, reg, regFile, mu, crashed, directOK, now,
                   wgDump, wgOK, hubPeers, hpc, hreq, hresp>>

\* The critical section of handleRegister: allocation, upsert, SaveRegistry,
\* snapshot of the reply, s.mu.Unlock().
RegisterBody(h, saveOK) ==
    /\ ~crashed
    /\ hpc[h] = "reg_body"
    /\ LET req == hreq[h]
           needAlloc == hloc[h].assigned = NoIP
           seen == IF hloc[h].raced THEN hloc[h].snap ELSE reg
           alloc == allocateVPNIP(cfgCIDR, seen)
       IN  IF needAlloc /\ ~alloc.ok
           THEN \* writeJSONError while the lock is held; the deferred unlock follows
                /\ hresp' = [hresp EXCEPT ![h] = [NoResp EXCEPT !.status = 400, !.err = "alloc"]]
                /\ hpc' = [hpc EXCEPT ![h] = "reg_defer"]
                /\ UNCHANGED <<reg, regFile, mu, crashed, hloc>>
           ELSE LET assigned == IF needAlloc THEN alloc.ip ELSE hloc[h].assigned
                    nodes == IF hloc[h].raced THEN upsertSeen(reg, seen, req, assigned)
                             ELSE upsertNode(reg, req, assigned)
                    nodeID == nodeIDOf(nodes, req.name)
                IN  /\ reg' = nodes
                    /\   IF ~mu
                         THEN \* s.mu.Unlock() on a mutex somebody else unlocked: fatal
                              /\ crashed' = TRUE
                              /\ regFile' = IF saveOK THEN nodes ELSE regFile
                              /\ hloc' = [hloc EXCEPT ![h].assigned = assigned, ![h].nodeID = nodeID,
                                                      ![h].raced = FALSE, ![h].snap = <<>>]
                              /\ UNCHANGED <<mu, hresp, hpc>>
                         ELSE IF ~saveOK
                         THEN \* s.mu.Unlock(); writeJSONError(500); return with locked still true
                              /\ mu' = FALSE
                              /\ hloc' = [hloc EXCEPT ![h].assigned = assigned,
                                                      ![h].nodeID = nodeID, ![h].held = 0,
                                                      ![h].raced = FALSE, ![h].snap = <<>>]
                              /\ hresp' = [hresp EXCEPT ![h] = [NoResp EXCEPT !.status = 500, !.err = "save"]]
                              /\ hpc' = [hpc EXCEPT ![h] = "reg_defer"]
                              /\ UNCHANGED <<regFile, crashed>>
                         ELSE \* saved; snapshot; s.mu.Unlock(); locked = false
                              /\ regFile' = nodes
                              /\ mu' = FALSE
                              /\ hloc' = [hloc EXCEPT ![h].assigned = assigned,
                                                      ![h].nodeID = nodeID,
                                                      ![h].held = 0,
                                                      ![h].locked = FALSE,
                                                      ![h].raced = FALSE,
                                                      ![h].snap = <<>>,
                                                      ![h].peers = peersOf(nodes, nodeID),
                                                      ![h].wgPeers = wgPeersOf(nodes)]
                              /\ hpc' = [hpc EXCEPT ![h] = "reg_fill"]
                              /\ UNCHANGED <<hresp, crashed>>
    /\ UNCHANGED nodeVars
    /\ UNCHANGED <<metVars, fsVars, cfgP2PReadyMode, cfgCIDR, cfgWGApply, cfgServerSet, directOK, now, wgDump, wgOK, hubPeers,
                   hreq>>

\* handleRegister returning without the deferred unlock.
RegisterDefer_NoUnlock(h) ==
    /\ ~crashed
    /\ hpc[h] = "reg_defer"
    /\ hpc' = [hpc EXCEPT ![h] = "idle"]
    /\ hloc' = [hloc EXCEPT ![h] = Returned(hloc[h])]
    /\ UNCHANGED nodeVars
    /\ UNCHANGED <<metVars, fsVars, cfgP2PReadyMode, cfgCIDR, cfgWGApply, cfgServerSet, reg, regFile, mu, crashed, directOK, now,
                   wgDump, wgOK, hubPeers, hreq, hresp>>

\* The deferred function of handleRegister: if locked { s.mu.Unlock() }
RegisterDefer(h) ==
    /\ ~crashed
    /\ hpc[h] = "reg_defer"
    /\ IF hloc[h].locked
       THEN IF mu
            THEN /\ mu' = FALSE
                 /\ hloc' = [hloc EXCEPT ![h] = Returned(hloc[h])]
                 /\ hpc' = [hpc EXCEPT ![h] = "idle"]
                 /\ UNCHANGED crashed
            ELSE /\ crashed' = TRUE
                 /\ UNCHANGED <<mu, hloc, hpc>>
       ELSE /\ hpc' = [hpc EXCEPT ![h] = "idle"]
            /\ hloc' = [hloc EXCEPT ![h] = Returned(hloc[h])]
            /\ UNCHANGED <<mu, crashed>>
    /\ UNCHANGED nodeVars
    /\ UNCHANGED <<metVars, fsVars, cfgP2PReadyMode, cfgCIDR, cfgWGApply, cfgServerSet, reg, regFile, directOK, now, wgDump, wgOK,
                   hubPeers, hreq, hresp>>

\* After the unlock: fillObservedEndpoints, applyWG when auto-apply is on, reply.
RegisterFill(h, applyOK) ==
    /\ ~crashed
    /\ hpc[h] = "reg_fill"
    /\   LET peers == fillObservedEndpoints(hloc[h].peers, wgOK, wgDump)
         IN  /\ hloc' = [hloc EXCEPT ![h] = Returned(hloc[h])]
             /\ IF cfgWGApply /\ ~applyOK
                THEN /\ hresp' = [hresp EXCEPT ![h] = [NoResp EXCEPT !.status = 500, !.err = "apply"]]
                     /\ UNCHANGED hubPeers
                ELSE /\ hubPeers' = IF cfgWGApply THEN hloc[h].wgPeers ELSE hubPeers
                     /\ hresp' = [hresp EXCEPT ![h] =
                           [status |-> 200, err |-> "", nodeID |-> hloc[h].nodeID,
                            vpnIP |-> hloc[h].assigned, peers |-> peers]]
    /\ hpc' = [hpc EXCEPT ![h] = "idle"]
    /\ UNCHANGED nodeVars
    /\ UNCHANGED <<metVars, fsVars, cfgP2PReadyMode, cfgCIDR, cfgWGApply, cfgServerSet, reg, regFile, mu, crashed, directOK, now,
                   wgDump, wgOK, hreq>>

\* ------------------------------------------------------------------------
\* handleCandidates
\* ------------------------------------------------------------------------
CandidatesRequest(id) == [NoReq EXCEPT !.kind = "candidates", !.nodeID = id]

\* Validate node_id, then s.mu.Lock().
CandidatesStart(h, req) ==
    /\ ~crashed
    /\ hpc[h] = "idle"
    /\ hreq' = [hreq EXCEPT ![h] = req]
    /\ IF req.nodeID = ""
       THEN /\ hresp' = [hresp EXCEPT ![h] = [NoResp EXCEPT !.status = 400, !.err = "required"]]
            /\ hloc' = [hloc EXCEPT ![h] = NoLoc]
            /\ UNCHANGED <<hpc, mu>>
       ELSE /\ ~mu
            /\ mu' = TRUE
            /\ hresp' = [hresp EXCEPT ![h] = NoResp]
            /\ hloc' = [hloc EXCEPT ![h] = [NoLoc EXCEPT !.held = 1, !.nodeID = req.nodeID]]
            /\ hpc' = [hpc EXCEPT ![h] = "cand_body"]
    /\ UNCHANGED nodeVars
    /\ UNCHANGED <<metVars, fsVars, cfgP2PReadyMode, cfgCIDR, cfgWGApply, cfgServerSet, reg, regFile, crashed, directOK, now,
                   wgDump, wgOK, hubPeers>>

\* peers := s.peersLocked(nodeID); s.mu.Unlock()
CandidatesBody(h) ==
    /\ ~crashed
    /\ hpc[h] = "cand_body"
    /\ IF mu
       THEN /\ mu' = FALSE
            /\ hloc' = [hloc EXCEPT ![h].peers = peersLocked(hreq[h].nodeID), ![h].held = 0]
            /\ hpc' = [hpc EXCEPT ![h] = "cand_fill"]
            /\ UNCHANGED crashed
       ELSE /\ crashed' = TRUE
            /\ UNCHANGED <<mu, hloc, hpc>>
    /\ UNCHANGED nodeVars
    /\ UNCHANGED <<metVars, fsVars, cfgP2PReadyMode, cfgCIDR, cfgWGApply, cfgServerSet, reg, regFile, directOK, now, wgDump, wgOK,
                   hubPeers, hreq, hresp>>

\* handleCandidates answering 500 when the dump cannot be read.
CandidatesFill_FailOnDumpError(h) ==
    /\ ~crashed
    /\ hpc[h] = "cand_fill"
    /\ hresp' = [hresp EXCEPT ![h] =
          IF wgOK
          THEN [NoResp EXCEPT !.status = 200,
                              !.peers = fillObservedEndpoints(hloc[h].peers, wgOK, wgDump)]
          ELSE [NoResp EXCEPT !.status = 500, !.err = "dump"]]
    /\ hloc' = [hloc EXCEPT ![h] = Returned(hloc[h])]
    /\ hpc' = [hpc EXCEPT ![h] = "idle"]
    /\ UNCHANGED nodeVars
    /\ UNCHANGED <<metVars, fsVars, cfgP2PReadyMode, cfgCIDR, cfgWGApply, cfgServerSet, reg, regFile, mu, crashed, directOK, now,
                   wgDump, wgOK, hubPeers, hreq>>

\* s.fillObservedEndpoints(peers); writeJSON(200)
CandidatesFill(h) ==
    /\ ~crashed
    /\ hpc[h] = "cand_fill"
    /\ hresp' = [hresp EXCEPT ![h] =
          [NoResp EXCEPT !.status = 200,
                         !.peers = fillObservedEndpoints(hloc[h].peers, wgOK, wgDump)]]
    /\ hloc' = [hloc EXCEPT ![h] = Returned(hloc[h])]
    /\ hpc' = [hpc EXCEPT ![h] = "idle"]
    /\ UNCHANGED nodeVars
    /\ UNCHANGED <<metVars, fsVars, cfgP2PReadyMode, cfgCIDR, cfgWGApply, cfgServerSet, reg, regFile, mu, crashed, directOK, now,
                   wgDump, wgOK, hubPeers, hreq>>

\* ------------------------------------------------------------------------
\* handleDirectResult
\* ------------------------------------------------------------------------
DirectResultRequest(id, peer, ok) ==
    [NoReq EXCEPT !.kind = "direct-result", !.nodeID = id, !.peerID = peer, !.success = ok]

\* A success with both ids takes the lock; anything else is logged and answered 204.
DirectResultStart(h, req) ==
    /\ ~crashed
    /\ hpc[h] = "idle"
    /\ hreq' = [hreq EXCEPT ![h] = req]
    /\ IF req.nodeID # "" /\ req.peerID # "" /\ req.success
       THEN /\ ~mu
            /\ mu' = TRUE
            /\ hresp' = [hresp EXCEPT ![h] = NoResp]
            /\ hloc' = [hloc EXCEPT ![h] = [NoLoc EXCEPT !.held = 1]]
            /\ hpc' = [hpc EXCEPT ![h] = "dr_body"]
       ELSE /\ hresp' = [hresp EXCEPT ![h] = [NoResp EXCEPT !.status = 204]]
            /\ hloc' = [hloc EXCEPT ![h] = NoLoc]
            /\ UNCHANGED <<hpc, mu>>
    /\ UNCHANGED nodeVars
    /\ UNCHANGED <<metVars, fsVars, cfgP2PReadyMode, cfgCIDR, cfgWGApply, cfgServerSet, reg, regFile, crashed, directOK, now,
                   wgDump, wgOK, hubPeers>>

\* Mutant of DirectResultBody: the success is stored for the reverse direction.
DirectResultBody_Reversed(h) ==
    /\ ~crashed
    /\ hpc[h] = "dr_body"
    /\ directOK' = [directOK EXCEPT ![hreq[h].peerID][hreq[h].nodeID] = now]
    /\ IF mu
       THEN /\ mu' = FALSE
            /\ hresp' = [hresp EXCEPT ![h] = [NoResp EXCEPT !.status = 204]]
            /\ hloc' = [hloc EXCEPT ![h] = NoLoc]
            /\ hpc' = [hpc EXCEPT ![h] = "idle"]
            /\ UNCHANGED crashed
       ELSE /\ crashed' = TRUE
            /\ UNCHANGED <<mu, hresp, hloc, hpc>>
    /\ UNCHANGED nodeVars
    /\ UNCHANGED <<metVars, fsVars, cfgP2PReadyMode, cfgCIDR, cfgWGApply, cfgServerSet, reg, regFile, now, wgDump, wgOK, hubPeers,
                   hreq>>

\* m[req.PeerID] = time.Now(); s.mu.Unlock(); log; 204
DirectResultBody(h) ==
    /\ ~crashed
    /\ hpc[h] = "dr_body"
    /\ directOK' = [directOK EXCEPT ![hreq[h].nodeID][hreq[h].peerID] = now]
    /\ IF mu
       THEN /\ mu' = FALSE
            /\ hresp' = [hresp EXCEPT ![h] = [NoResp EXCEPT !.status = 204]]
            /\ hloc' = [hloc EXCEPT ![h] = NoLoc]
            /\ hpc' = [hpc EXCEPT ![h] = "idle"]
            /\ UNCHANGED crashed
       ELSE /\ crashed' = TRUE
            /\ UNCHANGED <<mu, hresp, hloc, hpc>>
    /\ UNCHANGED nodeVars
    /\ UNCHANGED <<metVars, fsVars, cfgP2PReadyMode, cfgCIDR, cfgWGApply, cfgServerSet, reg, regFile, now, wgDump, wgOK, hubPeers,
                   hreq>>

\* ------------------------------------------------------------------------
\* handleNATProbe
\* ------------------------------------------------------------------------
NATProbeRequest(id, nat, pa) ==
    [NoReq EXCEPT !.kind = "nat-probe", !.nodeID = id, !.natType = nat, !.publicAddr = pa]

\* Validate node_id, then s.mu.Lock() with a deferred unlock.
NATProbeStart(h, req) ==
    /\ ~crashed
    /\ hpc[h] = "idle"
    /\ hreq' = [hreq EXCEPT ![h] = req]
    /\ IF req.nodeID = ""
       THEN /\ hresp' = [hresp EXCEPT ![h] = [NoResp EXCEPT !.status = 400, !.err = "required"]]
            /\ hloc' = [hloc EXCEPT ![h] = NoLoc]
            /\ UNCHANGED <<hpc, mu>>
       ELSE /\ ~mu
            /\ mu' = TRUE
            /\ hresp' = [hresp EXCEPT ![h] = NoResp]
            /\ hloc' = [hloc EXCEPT ![h] = [NoLoc EXCEPT !.held = 1, !.locked = TRUE]]
            /\ hpc' = [hpc EXCEPT ![h] = "nat_body"]
    /\ UNCHANGED nodeVars
    /\ UNCHANGED <<metVars, fsVars, cfgP2PReadyMode, cfgCIDR, cfgWGApply, cfgServerSet, reg, regFile, crashed, directOK, now,
                   wgDump, wgOK, hubPeers>>

\* The first node whose id is req.NodeID gets the NAT class and the mapped address.
natProbeNodes(nodes, req) ==
    LET hits == {i \in 1..Len(nodes) : nodes[i].id = req.nodeID}
    IN  IF hits = {} THEN nodes
        ELSE LET i == CHOOSE x \in hits : \A y \in hits : x <= y
             IN  [nodes EXCEPT ![i].natType = req.natType,
                               ![i].publicAddr = req.publicAddr]

\* handleNATProbe storing the mapped address as the node's endpoint as well.
NATProbeBody_SetsEndpoint(h, saveOK) ==
    /\ ~crashed
    /\ hpc[h] = "nat_body"
    /\ reg' = [i \in 1..Len(reg) |->
                 IF reg[i].id = hreq[h].nodeID
                 THEN [reg[i] EXCEPT !.natType = hreq[h].natType,
                                     !.publicAddr = hreq[h].publicAddr,
                                     !.endpoint = hreq[h].publicAddr]
                 ELSE reg[i]]
    /\ regFile' = IF saveOK THEN reg' ELSE regFile
    /\ hresp' = [hresp EXCEPT ![h] = [NoResp EXCEPT !.status = 204]]
    /\ hpc' = [hpc EXCEPT ![h] = "nat_defer"]
    /\ UNCHANGED nodeVars
    /\ UNCHANGED <<metVars, fsVars, cfgP2PReadyMode, cfgCIDR, cfgWGApply, cfgServerSet, mu, crashed, directOK, now, wgDump, wgOK,
                   hubPeers, hreq, hloc>>

\* Update under the lock, SaveRegistry, reply (500 or 204) with the lock held.
NATProbeBody(h, saveOK) ==
    /\ ~crashed
    /\ hpc[h] = "nat_body"
    /\ reg' = natProbeNodes(reg, hreq[h])
    /\ IF saveOK
       THEN /\ regFile' = reg'
            /\ hresp' = [hresp EXCEPT ![h] = [NoResp EXCEPT !.status = 204]]
       ELSE /\ UNCHANGED regFile
            /\ hresp' = [hresp EXCEPT ![h] = [NoResp EXCEPT !.status = 500, !.err = "save"]]
    /\ hpc' = [hpc EXCEPT ![h] = "nat_defer"]
    /\ UNCHANGED nodeVars
    /\ UNCHANGED <<metVars, fsVars, cfgP2PReadyMode, cfgCIDR, cfgWGApply, cfgServerSet, mu, crashed, directOK, now, wgDump, wgOK,
                   hubPeers, hreq, hloc>>

\* defer s.mu.Unlock()
NATProbeDefer(h) ==
    /\ ~crashed
    /\ hpc[h] = "nat_defer"
    /\ IF mu
       THEN /\ mu' = FALSE
            /\ hloc' = [hloc EXCEPT ![h] = NoLoc]
            /\ hpc' = [hpc EXCEPT ![h] = "idle"]
            /\ UNCHANGED crashed
       ELSE /\ crashed' = TRUE
            /\ UNCHANGED <<mu, hloc, hpc>>
    /\ UNCHANGED nodeVars
    /\ UNCHANGED <<metVars, fsVars, cfgP2PReadyMode, cfgCIDR, cfgWGApply, cfgServerSet, reg, regFile, directOK, now, wgDump, wgOK,
                   hubPeers, hreq, hresp>>

\* ------------------------------------------------------------------------
\* handleWGConfig
\* ------------------------------------------------------------------------
WGConfigRequest == [NoReq EXCEPT !.kind = "wgconfig"]

\* 500 when the server configuration is not set, else 200 with it; no lock.
WGConfigHandle(h) ==
    /\ ~crashed
    /\ hpc[h] = "idle"
    /\ hreq' = [hreq EXCEPT ![h] = WGConfigRequest]
    /\ hresp' = [hresp EXCEPT ![h] =
          IF cfgServerSet THEN [NoResp EXCEPT !.status = 200]
          ELSE [NoResp EXCEPT !.status = 500, !.err = "server config not set"]]
    /\ hloc' = [hloc EXCEPT ![h] = NoLoc]
    /\ UNCHANGED nodeVars
    /\ UNCHANGED <<metVars, fsVars, cfgP2PReadyMode, cfgCIDR, cfgWGApply, cfgServerSet, reg, regFile, mu, crashed, directOK,
                   now, wgDump, wgOK, hubPeers, hpc>>

\* ------------------------------------------------------------------------
\* Environment of the controller
\* ------------------------------------------------------------------------
\* time.Now() advances.
Tick ==
    /\ now < MaxTime
    /\ now' = now + 1
    /\ UNCHANGED nodeVars
    /\ UNCHANGED <<metVars, fsVars, cfgP2PReadyMode, cfgCIDR, cfgWGApply, cfgServerSet, reg, regFile, mu, crashed, directOK,
                   wgDump, wgOK, hubPeers, hpc, hreq, hloc, hresp>>

\* The kernel learns (or forgets) the endpoint of a peer of the hub interface.
DumpChange(k, ep) ==
    /\ wgDump[k] # ep
    /\ wgDump' = [wgDump EXCEPT ![k] = ep]
    /\ UNCHANGED nodeVars
    /\ UNCHANGED <<metVars, fsVars, cfgP2PReadyMode, cfgCIDR, cfgWGApply, cfgServerSet, reg, regFile, mu, crashed, directOK, now,
                   wgOK, hubPeers, hpc, hreq, hloc, hresp>>

\* `wg show <iface> dump` starts or stops failing.
DumpToggle ==
    /\ wgOK' = ~wgOK
    /\ UNCHANGED nodeVars
    /\ UNCHANGED <<metVars, fsVars, cfgP2PReadyMode, cfgCIDR, cfgWGApply, cfgServerSet, reg, regFile, mu, crashed, directOK, now,
                   wgDump, hubPeers, hpc, hreq, hloc, hresp>>

\* ------------------------------------------------------------------------
\* handleMetrics and metrics.AppendCSV
\* ------------------------------------------------------------------------
\* A row of the CSV file reaches the file in pieces when the buffer of the
\* csv writer is flushed in the middle of it: a row is its two halves.
\* req is 0 for the header row, else the number of the submission.
RowHalf(req, row, part) == [req |-> req, row |-> row, part |-> part]

\* writer.Write(headerRow())
headerRow == <<RowHalf(0, 0, 1), RowHalf(0, 0, 2)>>

\* writer.Write(recordRow(m)) for each of the n samples of submission req
RECURSIVE recordRows(_, _)
recordRows(req, n) ==
    IF n = 0 THEN <<>>
    ELSE recordRows(req, n - 1) \o <<RowHalf(req, n, 1), RowHalf(req, n, 2)>>

MetricsRequest(n) == [NoReq EXCEPT !.kind = "metrics", !.samples = n]

\* Mutant of MetricsStart: AppendCSV is called without s.metricsMu.
MetricsStart_NoLock(h, req) ==
    /\ ~crashed
    /\ hpc[h] = "idle"
    /\ mtotal + req.samples <= MaxSamples
    /\ hreq' = [hreq EXCEPT ![h] = req]
    /\ hloc' = [hloc EXCEPT ![h] = [NoLoc EXCEPT !.sub = mtotal + req.samples]]
    /\ mtotal' = mtotal + req.samples
    /\ IF req.samples = 0
       THEN /\ hresp' = [hresp EXCEPT ![h] = [NoResp EXCEPT !.status = 204]]
            /\ UNCHANGED hpc
       ELSE /\ hresp' = [hresp EXCEPT ![h] = NoResp]
            /\ hpc' = [hpc EXCEPT ![h] = "met_open"]
    /\ UNCHANGED <<csv, mbuf, metricsMu>>
    /\ UNCHANGED <<fsVars, nodeVars>>
    /\ UNCHANGED <<cfgP2PReadyMode, cfgCIDR, cfgWGApply, cfgServerSet, reg, regFile, mu, crashed, directOK,
                   now, wgDump, wgOK, hubPeers>>

\* Decode; no samples: 204. Else MkdirAll and s.metricsMu.Lock().
MetricsStart(h, req) ==
    /\ ~crashed
    /\ hpc[h] = "idle"
    /\ mtotal + req.samples <= MaxSamples
    /\ hreq' = [hreq EXCEPT ![h] = req]
    /\ hloc' = [hloc EXCEPT ![h] = [NoLoc EXCEPT !.sub = mtotal + req.samples]]
    /\ mtotal' = mtotal + req.samples
    /\ IF req.samples = 0
       THEN /\ hresp' = [hresp EXCEPT ![h] = [NoResp EXCEPT !.status = 204]]
            /\ UNCHANGED <<hpc, metricsMu>>
       ELSE /\ ~metricsMu
            /\ metricsMu' = TRUE
            /\ hresp' = [hresp EXCEPT ![h] = NoResp]
            /\ hpc' = [hpc EXCEPT ![h] = "met_open"]
    /\ UNCHANGED <<csv, mbuf>>
    /\ UNCHANGED <<fsVars, nodeVars>>
    /\ UNCHANGED <<cfgP2PReadyMode, cfgCIDR, cfgWGApply, cfgServerSet, reg, regFile, mu, crashed, directOK,
                   now, wgDump, wgOK, hubPeers>>

\* AppendCSV: open for append, Stat, and the rows handed to the csv writer:
\* the header first when the file is empty. The submission is numbered by
\* the count of samples submitted up to and including it.
MetricsOpen(h) ==
    /\ ~crashed
    /\ hpc[h] = "met_open"
    /\ mbuf' = [mbuf EXCEPT ![h] =
          (IF Len(csv) = 0 THEN headerRow ELSE <<>>)
              \o recordRows(hloc[h].sub, hreq[h].samples)]
    /\ hpc' = [hpc EXCEPT ![h] = "met_write"]
    /\ UNCHANGED <<csv, metricsMu, mtotal>>
    /\ UNCHANGED <<fsVars, nodeVars>>
    /\ UNCHANGED <<cfgP2PReadyMode, cfgCIDR, cfgWGApply, cfgServerSet, reg, regFile, mu, crashed, directOK,
                   now, wgDump, wgOK, hubPeers, hreq, hloc, hresp>>

\* One write(2) on the O_APPEND descriptor: the buffer filled up, or the
\* deferred Flush ran. k halves go to the end of the file.
MetricsWrite(h, k) ==
    /\ ~crashed
    /\ hpc[h] = "met_write"
    /\ k \in 1..Len(mbuf[h])
    /\ csv' = csv \o SubSeq(mbuf[h], 1, k)
    /\ mbuf' = [mbuf EXCEPT ![h] = SubSeq(mbuf[h], k + 1, Len(mbuf[h]))]
    /\ hpc' = [hpc EXCEPT ![h] = IF k = Len(mbuf[h]) THEN "met_defer" ELSE "met_write"]
    /\ UNCHANGED <<metricsMu, mtotal>>
    /\ UNCHANGED <<fsVars, nodeVars>>
    /\ UNCHANGED <<cfgP2PReadyMode, cfgCIDR, cfgWGApply, cfgServerSet, reg, regFile, mu, crashed, directOK,
                   now, wgDump, wgOK, hubPeers, hreq, hloc, hresp>>

\* file.Close(); 204; the deferred s.metricsMu.Unlock().
MetricsDefer(h) ==
    /\ ~crashed
    /\ hpc[h] = "met_defer"
    /\ IF metricsMu
       THEN /\ metricsMu' = FALSE
            /\ hresp' = [hresp EXCEPT ![h] = [NoResp EXCEPT !.status = 204]]
            /\ hpc' = [hpc EXCEPT ![h] = "idle"]
            /\ UNCHANGED crashed
       ELSE /\ crashed' = TRUE
            /\ UNCHANGED <<metricsMu, hresp, hpc>>
    /\ UNCHANGED <<csv, mbuf, mtotal>>
    /\ UNCHANGED <<fsVars, nodeVars>>
    /\ UNCHANGED <<cfgP2PReadyMode, cfgCIDR, cfgWGApply, cfgServerSet, reg, regFile, mu, directOK,
                   now, wgDump, wgOK, hubPeers, hreq, hloc>>

\* ------------------------------------------------------------------------
\* store.SaveRegistry and atomicWriteFile
\* ------------------------------------------------------------------------
\* Permission bits 0o600.
OwnerOnly == 384

\* A file with content and permission bits.
File(content, mode) == [exists |-> TRUE, content |-> content, mode |-> mode]

\* yaml.Marshal(reg), MkdirAll, os.CreateTemp: the temporary file is created
\* empty with mode 0o600. A failure returns before anything is written.
SaveBegin(data, ok) ==
    /\ savePc = "idle"
    /\ IF ok
       THEN /\ saveData' = data
            /\ savePrev' = fsPath
            /\ fsTmp' = File(<<>>, OwnerOnly)
            /\ savePc' = "chmod"
       ELSE UNCHANGED <<saveData, savePrev, fsTmp, savePc>>
    /\ UNCHANGED fsPath
    /\ UNCHANGED <<metVars, nodeVars>>
    /\ UNCHANGED <<cfgP2PReadyMode, cfgCIDR, cfgWGApply, cfgServerSet, reg, regFile, mu, crashed, directOK,
                   now, wgDump, wgOK, hubPeers, hpc, hreq, hloc, hresp>>

\* tmp.Chmod(perm)
SaveChmod(ok) ==
    /\ savePc = "chmod"
    /\ IF ok
       THEN fsTmp' = [fsTmp EXCEPT !.mode = OwnerOnly] /\ savePc' = "write"
       ELSE UNCHANGED fsTmp /\ savePc' = "remove"
    /\ UNCHANGED <<fsPath, saveData, savePrev>>
    /\ UNCHANGED <<metVars, nodeVars>>
    /\ UNCHANGED <<cfgP2PReadyMode, cfgCIDR, cfgWGApply, cfgServerSet, reg, regFile, mu, crashed, directOK,
                   now, wgDump, wgOK, hubPeers, hpc, hreq, hloc, hresp>>

\* Mutant of SaveWrite: the data is written to the registry path itself.
SaveWrite_InPlace(n) ==
    /\ savePc = "write"
    /\ n \in 0..Len(saveData)
    /\ fsPath' = File(SubSeq(saveData, 1, n), OwnerOnly)
    /\ savePc' = IF n = Len(saveData) THEN "sync" ELSE "remove"
    /\ UNCHANGED <<fsTmp, saveData, savePrev>>
    /\ UNCHANGED <<metVars, nodeVars>>
    /\ UNCHANGED <<cfgP2PReadyMode, cfgCIDR, cfgWGApply, cfgServerSet, reg, regFile, mu, crashed, directOK,
                   now, wgDump, wgOK, hubPeers, hpc, hreq, hloc, hresp>>

\* tmp.Write(data): n bytes reach the temporary file; fewer than all of them
\* is an error.
SaveWrite(n) ==
    /\ savePc = "write"
    /\ n \in 0..Len(saveData)
    /\ fsTmp' = [fsTmp EXCEPT !.content = SubSeq(saveData, 1, n)]
    /\ savePc' = IF n = Len(saveData) THEN "sync" ELSE "remove"
    /\ UNCHANGED <<fsPath, saveData, savePrev>>
    /\ UNCHANGED <<metVars, nodeVars>>
    /\ UNCHANGED <<cfgP2PReadyMode, cfgCIDR, cfgWGApply, cfgServerSet, reg, regFile, mu, crashed, directOK,
                   now, wgDump, wgOK, hubPeers, hpc, hreq, hloc, hresp>>

\* tmp.Sync(), then tmp.Close(): either may fail.
SaveSyncClose(ok) ==
    /\ savePc \in {"sync", "close"}
    /\ savePc' = IF ~ok THEN "remove" ELSE IF savePc = "sync" THEN "close" ELSE "rename"
    /\ UNCHANGED <<fsPath, fsTmp, saveData, savePrev>>
    /\ UNCHANGED <<metVars, nodeVars>>
    /\ UNCHANGED <<cfgP2PReadyMode, cfgCIDR, cfgWGApply, cfgServerSet, reg, regFile, mu, crashed, directOK,
                   now, wgDump, wgOK, hubPeers, hpc, hreq, hloc, hresp>>

\* os.Rename(tmpName, path): the path now names the temporary file.
SaveRename(ok) ==
    /\ savePc = "rename"
    /\ IF ok
       THEN fsPath' = fsTmp /\ fsTmp' = NoFile
       ELSE UNCHANGED <<fsPath, fsTmp>>
    /\ savePc' = "remove"
    /\ UNCHANGED <<saveData, savePrev>>
    /\ UNCHANGED <<metVars, nodeVars>>
    /\ UNCHANGED <<cfgP2PReadyMode, cfgCIDR, cfgWGApply, cfgServerSet, reg, regFile, mu, crashed, directOK,
                   now, wgDump, wgOK, hubPeers, hpc, hreq, hloc, hresp>>

\* The deferred os.Remove(tmpName); atomicWriteFile returns.
SaveRemove ==
    /\ savePc = "remove"
    /\ fsTmp' = NoFile
    /\ savePc' = "idle"
    /\ UNCHANGED <<fsPath, saveData, savePrev>>
    /\ UNCHANGED <<metVars, nodeVars>>
    /\ UNCHANGED <<cfgP2PReadyMode, cfgCIDR, cfgWGApply, cfgServerSet, reg, regFile, mu, crashed, directOK,
                   now, wgDump, wgOK, hubPeers, hpc, hreq, hloc, hresp>>

\* The process is killed inside atomicWriteFile and started again: the
\* temporary file stays behind under its random name.
SaveKilled ==
    /\ savePc # "idle"
    /\ savePc' = "idle"
    /\ UNCHANGED <<fsPath, fsTmp, saveData, savePrev>>
    /\ UNCHANGED <<metVars, nodeVars>>
    /\ UNCHANGED <<cfgP2PReadyMode, cfgCIDR, cfgWGApply, cfgServerSet, reg, regFile, mu, crashed, directOK,
                   now, wgDump, wgOK, hubPeers, hpc, hreq, hloc, hresp>>

\* ------------------------------------------------------------------------
\* Agent run loop
\* ------------------------------------------------------------------------
\* allowedOwner := map[string]string{}
NoOwners == [ip \in {} |-> ""]

\* Candidates the direct ticker can send a probe to.
probeTargets(cfg, cands) ==
    {cands[i].id : i \in {k \in 1..Len(cands) :
        /\ cfg.probePort > 0
        /\ ProbeAddrOK(cands[k].publicAddr, cands[k].endpoint, cands[k].probePort)}}

\* The direct ticker that never takes the break of direct mode off.
directOff_Never(cfg) == FALSE

\* if cfg.DirectMode == "off" { break }
directOff(cfg) == cfg.directMode = "off"

\* The direct ticker probing the candidates that are p2p_ready only.
probeSeq_ReadyOnly(cfg, cands) ==
    LET sel == SelectSeq(cands, LAMBDA c :
                   /\ c.p2pReady
                   /\ cfg.probePort > 0
                   /\ c.probePort > 0
                   /\ (c.publicAddr # "" \/ c.endpoint # ""))
    IN  [i \in 1..Len(sel) |-> sel[i].id]

\* The ids of the candidates the direct ticker sends a probe to, in the order
\* of the list: the agent has its probe socket and ProbeAddr gives an address.
RECURSIVE probeSeq(_, _)
probeSeq(cfg, cands) ==
    IF cands = <<>> THEN <<>>
    ELSE LET c == Head(cands)
         IN  (IF cfg.probePort > 0 /\ ProbeAddrOK(c.publicAddr, c.endpoint, c.probePort)
              THEN <<c.id>> ELSE <<>>) \o probeSeq(cfg, Tail(cands))

\* case <-candidatesTicker.C: a failed fetch keeps the list.
AgentCandidates(fetchOK, peers) ==
    /\ UNCHANGED <<stunVars, fnVars>>
    /\ runPc = "running"
    /\ UNCHANGED peerVars
    /\ candidates' = IF fetchOK THEN peers ELSE candidates
    /\ UNCHANGED supVars
    /\ UNCHANGED <<agtCfg, activePeers, desired, wgConf, policyRoutes, applyCalls,
                   tickCands, tickNo, tickProbes, tickResults>>
    /\ UNCHANGED ctlVars

\* case <-directTicker.C: build desired, probe every candidate and submit the
\* results, then apply desired when it differs from activePeers.
\* answered: the candidates whose probe was acknowledged; delivered: those of
\* them whose DirectResult reached the controller; failStep: the command of
\* ApplyPeers that fails.
AgentDirectTick(answered, delivered, failStep) ==
    /\ UNCHANGED <<stunVars, fnVars>>
    /\ runPc = "running"
    /\ UNCHANGED peerVars
    /\ UNCHANGED supVars
    /\ tickCands' = candidates
    /\ tickNo' = IF tickNo = 1 THEN 2 ELSE 1
    /\ IF directOff(agtCfg)
       THEN /\ answered = {}
            /\ delivered = {}
            /\ failStep = 0
            /\ desired' = NoPeers
            /\ applyCalls' = <<>>
            /\ tickProbes' = <<>>
            /\ tickResults' = <<>>
            /\ UNCHANGED <<activePeers, wgConf, policyRoutes, directOK>>
       ELSE LET des == buildDesired(agtCfg, candidates, NoPeers, NoOwners)
                probed == probeSeq(agtCfg, candidates)
            IN  /\ desired' = des
                /\ answered \subseteq probeTargets(agtCfg, candidates)
                /\ delivered \subseteq answered
                /\ tickProbes' = probed
                /\ tickResults' = [i \in 1..Len(probed) |->
                                      [peer |-> probed[i], success |-> probed[i] \in answered]]
                /\ delivered # {} => ~crashed /\ ~mu
                /\ directOK' = [directOK EXCEPT ![AgentID] =
                        [p \in Names |-> IF p \in delivered THEN now ELSE @[p]]]
                /\ IF /\ agtCfg.serverPublicKey # ""
                      /\ agtCfg.serverEndpoint # ""
                      /\ Len(agtCfg.serverAllowedIPs) > 0
                      /\ ~peersEqual(activePeers, des)
                   THEN \E peerList \in peersFromMap(des) :
                          LET r == ApplyPeers(agtCfg, peerList, failStep, wgConf,
                                              policyRoutes)
                          IN  /\ failStep <= applySteps(agtCfg, peerList)
                              /\ applyCalls' = <<[peers |-> peerList, ok |-> r.ok]>>
                              /\ wgConf' = r.conf
                              /\ policyRoutes' = r.routes
                              /\ activePeers' = IF r.ok THEN des ELSE activePeers
                   ELSE /\ failStep = 0
                        /\ applyCalls' = <<>>
                        /\ UNCHANGED <<activePeers, wgConf, policyRoutes>>
    /\ UNCHANGED <<agtCfg, candidates>>
    /\ UNCHANGED <<metVars, fsVars, cfgP2PReadyMode, cfgCIDR, cfgWGApply, cfgServerSet, reg, regFile, mu, crashed, now, wgDump, wgOK,
                   hubPeers, hpc, hreq, hloc, hresp>>

\* ------------------------------------------------------------------------
\* Agent run loop: start, health probes, cancellation
\* ------------------------------------------------------------------------
\* Run up to its loop: register, the health ticker made from the configuration
\* as Run was given it, fresh locals, then fillServerConfig. A cancelled
\* context makes the register call fail with context.Canceled. fetchOK is the
\* outcome of the WGConfig call, made only when a server field is missing.
RunStart(regOK, fetchOK) ==
    /\ UNCHANGED <<stunVars, fnVars>>
    /\ runPc = "starting"
    /\ UNCHANGED peerVars
    /\ ~fetchOK => (regOK /\ ~ctxDone /\ ~serverFieldsSet(agtCfg))
    /\ IF ctxDone \/ ~regOK
       THEN /\ runPc' = "returned"
            /\ runErr' = IF ctxDone THEN "context canceled" ELSE "register failed"
            /\ UNCHANGED <<candidates, activePeers, agtCfg, healthC>>
       ELSE /\ runPc' = "running"
            /\ runErr' = ""
            /\ healthC' = healthEnabled(agtCfg)
            /\ candidates' = <<>>
            /\ activePeers' = NoPeers
            /\ agtCfg' = fillServerConfig(agtCfg, fetchOK, cfgServerSet)
    /\ healthFailures' = 0
    /\ healthLog' = <<>>
    /\ UNCHANGED <<desired, wgConf, policyRoutes, applyCalls, tickCands, tickNo, tickProbes, tickResults>>
    /\ UNCHANGED <<supPc, ctxDone, iterLog, errLog>>
    /\ UNCHANGED ctlVars

\* Mutant of RunHealth: a successful probe leaves the count as it is.
RunHealth_NoReset(ok) ==
    /\ UNCHANGED <<stunVars, fnVars>>
    /\ runPc = "running"
    /\ healthC
    /\ Len(healthLog) < MaxProbes
    /\ healthLog' = Append(healthLog, ok)
    /\ IF ok
       THEN UNCHANGED <<healthFailures, runPc, runErr>>
       ELSE /\ healthFailures' = healthFailures + 1
            /\ IF healthFailures + 1 >= agtCfg.healthCheckFailures
               THEN runPc' = "returned" /\ runErr' = "tunnel health check failed"
               ELSE UNCHANGED <<runPc, runErr>>
    /\ UNCHANGED <<supPc, ctxDone, healthC, iterLog, errLog>>
    /\ UNCHANGED <<agtVars, ctlVars>>

\* case <-healthC: ok is the result of checkTunnelHealth.
RunHealth(ok) ==
    /\ UNCHANGED <<stunVars, fnVars>>
    /\ runPc = "running"
    /\ healthC
    /\ Len(healthLog) < MaxProbes
    /\ healthLog' = Append(healthLog, ok)
    /\ IF ok
       THEN healthFailures' = 0 /\ UNCHANGED <<runPc, runErr>>
       ELSE /\ healthFailures' = healthFailures + 1
            /\ IF healthFailures + 1 >= agtCfg.healthCheckFailures
               THEN runPc' = "returned" /\ runErr' = "tunnel health check failed"
               ELSE UNCHANGED <<runPc, runErr>>
    /\ UNCHANGED <<supPc, ctxDone, healthC, iterLog, errLog>>
    /\ UNCHANGED <<agtVars, ctlVars>>

\* case <-ctx.Done(): return ctx.Err()
RunCancelled ==
    /\ UNCHANGED <<stunVars, fnVars>>
    /\ runPc = "running"
    /\ ctxDone
    /\ runPc' = "returned"
    /\ runErr' = "context canceled"
    /\ UNCHANGED <<supPc, ctxDone, healthFailures, healthLog, healthC, iterLog, errLog>>
    /\ UNCHANGED <<agtVars, ctlVars>>

\* SIGINT or SIGTERM: signalContext cancels the context.
Cancel ==
    /\ UNCHANGED <<stunVars, fnVars>>
    /\ ~ctxDone
    /\ ctxDone' = TRUE
    /\ UNCHANGED <<supPc, runPc, runErr, healthFailures, healthLog, healthC, iterLog, errLog>>
    /\ UNCHANGED <<agtVars, ctlVars>>

\* ------------------------------------------------------------------------
\* nodeServe: the supervisor loop around sync-config, up and agent.Run
\* ------------------------------------------------------------------------
\* Top of the loop: the configuration is read again from its file.
SupLoad ==
    /\ UNCHANGED <<stunVars, fnVars>>
    /\ supPc = "load"
    /\ supPc' = "sync"
    /\ iterLog' = <<>>
    /\ UNCHANGED <<runPc, runErr, ctxDone, healthFailures, healthLog, healthC, errLog>>
    /\ UNCHANGED <<agtVars, ctlVars>>

\* syncConfigOnce under context.Background(): register, then the server
\* fields from the controller when the file lacks them. netOK is the outcome
\* of the calls to the controller and of the save.
syncConfigOnce(cfg, netOK) ==
    IF ~netOK THEN [ok |-> FALSE, cfg |-> cfg]
    ELSE IF serverFieldsSet(cfg) THEN [ok |-> TRUE, cfg |-> cfg]
    ELSE IF cfgServerSet THEN [ok |-> TRUE, cfg |-> withServerFields(cfg)]
    ELSE [ok |-> FALSE, cfg |-> cfg]

SupSync(netOK) ==
    /\ UNCHANGED <<stunVars, fnVars>>
    /\ supPc = "sync"
    /\ UNCHANGED peerVars
    /\ LET r == syncConfigOnce(agtCfg, netOK) IN
       IF r.ok
       THEN /\ agtCfg' = r.cfg
            /\ supPc' = "up"
            /\ iterLog' = Append(iterLog, "sync")
            /\ UNCHANGED errLog
       ELSE /\ errLog' = errLog \cup {"sync-config failed"}
            /\ supPc' = "retry"
            /\ UNCHANGED <<agtCfg, iterLog>>
    /\ UNCHANGED <<runPc, runErr, ctxDone, healthFailures, healthLog, healthC>>
    /\ UNCHANGED <<candidates, activePeers, desired, wgConf, policyRoutes,
                   applyCalls, tickCands, tickNo, tickProbes, tickResults>>
    /\ UNCHANGED ctlVars

\* Mutant of SupUp: a failed up is logged and the agent is started all the same.
SupUp_IgnoreFailure(failStep) ==
    /\ UNCHANGED <<stunVars, fnVars>>
    /\ supPc = "up"
    /\ UNCHANGED peerVars
    /\ wgConf' = IF failStep = 1 THEN wgConf ELSE RenderSetConf(agtCfg, <<>>).conf
    /\ IF failStep = 0
       THEN /\ iterLog' = Append(iterLog, "up")
            /\ UNCHANGED errLog
       ELSE /\ errLog' = errLog \cup {"wg up failed"}
            /\ UNCHANGED iterLog
    /\ supPc' = "run"
    /\ runPc' = "starting"
    /\ UNCHANGED <<runErr, ctxDone, healthFailures, healthLog, healthC>>
    /\ UNCHANGED <<agtCfg, candidates, activePeers, desired, policyRoutes,
                   applyCalls, tickCands, tickNo, tickProbes, tickResults>>
    /\ UNCHANGED ctlVars

\* upOnce, then the call of agent.Run. failStep 0: every command succeeds;
\* 1: a command before wg syncconf fails; 2: a command after it fails.
SupUp(failStep) ==
    /\ UNCHANGED <<stunVars, fnVars>>
    /\ supPc = "up"
    /\ UNCHANGED peerVars
    /\ wgConf' = IF failStep = 1 THEN wgConf ELSE RenderSetConf(agtCfg, <<>>).conf
    /\ IF failStep = 0
       THEN /\ iterLog' = Append(iterLog, "up")
            /\ supPc' = "run"
            /\ runPc' = "starting"
            /\ UNCHANGED errLog
       ELSE /\ errLog' = errLog \cup {"wg up failed"}
            /\ supPc' = "retry"
            /\ UNCHANGED <<iterLog, runPc>>
    /\ UNCHANGED <<runErr, ctxDone, healthFailures, healthLog, healthC>>
    /\ UNCHANGED <<agtCfg, candidates, activePeers, desired, policyRoutes,
                   applyCalls, tickCands, tickNo, tickProbes, tickResults>>
    /\ UNCHANGED ctlVars

\* agent.Run has returned: a cancellation ends nodeServe, anything else is
\* written to stderr and retried.
SupRunExit ==
    /\ UNCHANGED <<stunVars, fnVars>>
    /\ supPc = "run"
    /\ runPc = "returned"
    /\ runPc' = "idle"
    /\ IF runErr = "context canceled"
       THEN supPc' = "stopped" /\ UNCHANGED errLog
       ELSE supPc' = "retry" /\ errLog' = errLog \cup {"agent exited"}
    /\ UNCHANGED <<runErr, ctxDone, healthFailures, healthLog, healthC, iterLog>>
    /\ UNCHANGED <<agtVars, ctlVars>>

\* retry: select on ctx.Done() and time.After(delay)
SupRetry ==
    /\ UNCHANGED <<stunVars, fnVars>>
    /\ supPc = "retry"
    /\ supPc' = IF ctxDone THEN "stopped" ELSE "load"
    /\ UNCHANGED <<runPc, runErr, ctxDone, healthFailures, healthLog, healthC, iterLog, errLog>>
    /\ UNCHANGED <<agtVars, ctlVars>>

\* ------------------------------------------------------------------------
\* Specification of the registry: concurrent Register calls
\* ------------------------------------------------------------------------
\* Overlay strings a node may preset in its configuration.
PresetIPs == {IP(1025, "/32")}

RegisterInputs ==
    {RegisterRequest(n, k, ip, "", "", 51900) :
        n \in {"a", "b"}, k \in {"K"}, ip \in PresetIPs \cup {NoIP}}

Next ==
    \/ \E h \in Handlers, req \in RegisterInputs : RegisterStart(h, req)
    \/ \E h \in Handlers : RegisterLock(h)
    \/ \E h \in Handlers : RegisterScan(h)
    \/ \E h \in Handlers, saveOK \in BOOLEAN : RegisterBody(h, saveOK)
    \/ \E h \in Handlers : RegisterDefer(h)
    \/ \E h \in Handlers, applyOK \in BOOLEAN : RegisterFill(h, applyOK)

InitReg ==
    /\ Init
    /\ cfgWGApply = FALSE
    /\ cfgServerSet
    /\ agtCfg = NodeCfgDefault
    /\ supPc = "none"
    /\ cfgP2PReadyMode = DefaultP2PReadyMode

Spec == InitReg /\ [][Next]_vars

\* ------------------------------------------------------------------------
\* Specification of the allocator: Register calls without a preset overlay
\* ------------------------------------------------------------------------
AllocInputs ==
    {RegisterRequest(n, "K", NoIP, "", "", 51900) : n \in Names}

NextAlloc ==
    \/ \E h \in Handlers, req \in AllocInputs : RegisterStart(h, req)
    \/ \E h \in Handlers : RegisterLock(h)
    \/ \E h \in Handlers : RegisterScan(h)
    \/ \E h \in Handlers, saveOK \in BOOLEAN : RegisterBody(h, saveOK)
    \/ \E h \in Handlers : RegisterDefer(h)
    \/ \E h \in Handlers, applyOK \in BOOLEAN : RegisterFill(h, applyOK)

SpecAlloc == InitReg /\ [][NextAlloc]_vars

\* ------------------------------------------------------------------------
\* Specification of the readiness oracle: evidence, time, candidates
\* ------------------------------------------------------------------------
OracleNames == {"a", "b"}
\* Requests to the oracle and the observer are served one at a time.
OracleHandlers == {"h1"}

OracleRegisterInputs ==
    {RegisterRequest(n, KeyOf(n), NoIP, "", "", 51900) : n \in OracleNames}

OracleResultInputs ==
    {DirectResultRequest(x, y, ok) :
        x \in OracleNames \cup {""}, y \in OracleNames, ok \in BOOLEAN} \
    {DirectResultRequest(x, x, ok) : x \in OracleNames, ok \in BOOLEAN}

OracleCandidatesInputs == {CandidatesRequest(x) : x \in OracleNames \cup {""}}

NextOracle ==
    \/ \E h \in OracleHandlers, req \in OracleRegisterInputs : RegisterStart(h, req)
    \/ \E h \in OracleHandlers : RegisterLock(h)
    \/ \E h \in OracleHandlers : RegisterBody(h, TRUE)
    \/ \E h \in OracleHandlers : RegisterDefer(h)
    \/ \E h \in OracleHandlers : RegisterFill(h, TRUE)
    \/ \E h \in OracleHandlers, req \in OracleResultInputs : DirectResultStart(h, req)
    \/ \E h \in OracleHandlers : DirectResultBody(h)
    \/ \E h \in OracleHandlers, req \in OracleCandidatesInputs : CandidatesStart(h, req)
    \/ \E h \in OracleHandlers : CandidatesBody(h)
    \/ \E h \in OracleHandlers : CandidatesFill(h)
    \/ Tick

InitOracle == InitReg /\ cfgCIDR = CidrOverlay

SpecOracle == InitOracle /\ [][NextOracle]_vars

\* ------------------------------------------------------------------------
\* Specification of the readiness policy: the oracle under either mode
\* ------------------------------------------------------------------------
InitReady ==
    /\ Init
    /\ cfgWGApply = FALSE
    /\ cfgServerSet
    /\ agtCfg = NodeCfgDefault
    /\ supPc = "none"
    /\ cfgCIDR = CidrOverlay

SpecReady == InitReady /\ [][NextOracle]_vars

\* ------------------------------------------------------------------------
\* Specification of the endpoint observer: Register, NATProbe, dump, candidates
\* ------------------------------------------------------------------------
\* Endpoints a node may advertise (NodeConfig.AdvertiseWGEndpoint).
AdvertisedEndpoints == {"", "adv:51820"}
\* Endpoint column of the hub's dump.
DumpEndpoints == {"", "(none)", "obs:40001"}
\* Addresses mapped by STUN on the probe socket.
StunAddrs == {"stun:33134"}

EndpointRegisterInputs ==
    {RegisterRequest(n, KeyOf(n), NoIP, ep, "", 51900) :
        n \in OracleNames, ep \in AdvertisedEndpoints}

EndpointProbeInputs ==
    {NATProbeRequest(x, "symmetric", pa) : x \in OracleNames \cup {""}, pa \in StunAddrs}

NextEndpoint ==
    \/ \E h \in OracleHandlers, req \in EndpointRegisterInputs : RegisterStart(h, req)
    \/ \E h \in OracleHandlers : RegisterLock(h)
    \/ \E h \in OracleHandlers : RegisterBody(h, TRUE)
    \/ \E h \in OracleHandlers : RegisterDefer(h)
    \/ \E h \in OracleHandlers : RegisterFill(h, TRUE)
    \/ \E h \in OracleHandlers, req \in EndpointProbeInputs : NATProbeStart(h, req)
    \/ \E h \in OracleHandlers, saveOK \in BOOLEAN : NATProbeBody(h, saveOK)
    \/ \E h \in OracleHandlers : NATProbeDefer(h)
    \/ \E h \in OracleHandlers, req \in OracleCandidatesInputs : CandidatesStart(h, req)
    \/ \E h \in OracleHandlers : CandidatesBody(h)
    \/ \E h \in OracleHandlers : CandidatesFill(h)
    \/ \E k \in {KeyOf(n) : n \in OracleNames}, ep \in DumpEndpoints : DumpChange(k, ep)
    \/ DumpToggle

SpecEndpoint == InitOracle /\ [][NextEndpoint]_vars

\* ------------------------------------------------------------------------
\* Specification of the evidence map: every request of the controller, and time
\* ------------------------------------------------------------------------
NextEvidence ==
    \/ \E h \in OracleHandlers, req \in OracleRegisterInputs : RegisterStart(h, req)
    \/ \E h \in OracleHandlers : RegisterLock(h)
    \/ \E h \in OracleHandlers : RegisterBody(h, TRUE)
    \/ \E h \in OracleHandlers : RegisterDefer(h)
    \/ \E h \in OracleHandlers : RegisterFill(h, TRUE)
    \/ \E h \in OracleHandlers, req \in OracleResultInputs : DirectResultStart(h, req)
    \/ \E h \in OracleHandlers : DirectResultBody(h)
    \/ \E h \in OracleHandlers, req \in OracleCandidatesInputs : CandidatesStart(h, req)
    \/ \E h \in OracleHandlers : CandidatesBody(h)
    \/ \E h \in OracleHandlers : CandidatesFill(h)
    \/ \E h \in OracleHandlers, req \in EndpointProbeInputs : NATProbeStart(h, req)
    \/ \E h \in OracleHandlers : NATProbeBody(h, TRUE)
    \/ \E h \in OracleHandlers : NATProbeDefer(h)
    \/ \E h \in OracleHandlers : WGConfigHandle(h)
    \/ \E h \in OracleHandlers : MetricsStart(h, MetricsRequest(MaxSamples))
    \/ \E h \in OracleHandlers : MetricsOpen(h)
    \/ \E h \in OracleHandlers : MetricsWrite(h, Len(mbuf[h]))
    \/ \E h \in OracleHandlers : MetricsDefer(h)
    \/ Tick

SpecEvidence == InitOracle /\ [][NextEvidence]_vars

\* ------------------------------------------------------------------------
\* Specification of the metrics sink: concurrent Metrics submissions
\* ------------------------------------------------------------------------
MetricsInputs == {MetricsRequest(n) : n \in 0..MaxBatch}

NextMetrics ==
    \/ \E h \in Handlers, req \in MetricsInputs : MetricsStart(h, req)
    \/ \E h \in Handlers : MetricsOpen(h)
    \/ \E h \in Handlers, k \in 1..(2 * MaxBatch + 2) : MetricsWrite(h, k)
    \/ \E h \in Handlers : MetricsDefer(h)

SpecMetrics == InitReg /\ [][NextMetrics]_vars

\* ------------------------------------------------------------------------
\* Specification of the registry file: saves one after another
\* ------------------------------------------------------------------------
\* The marshalled registry: a YAML document of one to MaxData pieces.
DataChoices ==
    UNION {[1..n -> {"x", "y"}] : n \in 1..MaxData}

NextSave ==
    \/ \E data \in DataChoices, ok \in BOOLEAN : SaveBegin(data, ok)
    \/ \E ok \in BOOLEAN : SaveChmod(ok)
    \/ \E n \in 0..MaxData : SaveWrite(n)
    \/ \E ok \in BOOLEAN : SaveSyncClose(ok)
    \/ \E ok \in BOOLEAN : SaveRename(ok)
    \/ SaveRemove
    \/ SaveKilled

SpecSave == InitReg /\ [][NextSave]_vars

\* ------------------------------------------------------------------------
\* Specification of the agent's reconciler: candidate fetches and direct ticks
\* ------------------------------------------------------------------------
\* Two overlay hosts, 10.7.0.2 and 10.7.0.3.
OverlayX == 1026
OverlayY == 1027

AgentCandidate(id, pubKey, vpnIP, endpoint, ready) ==
    [id |-> id, name |-> id, pubKey |-> pubKey, vpnIP |-> vpnIP, endpoint |-> endpoint,
     publicAddr |-> "", natType |-> "", probePort |-> DefaultProbePort,
     p2pReady |-> ready]

\* A candidate that meets every condition for injection.
FullCandidate(id, vpnIP) == AgentCandidate(id, KeyOf(id), vpnIP, "ep_" \o id, TRUE)

\* Node "b" as the controller may report it: complete, or lacking one of
\* readiness, key, endpoint, overlay address; the address in any written form.
FirstCandidates ==
    {FullCandidate("b", ip) :
        ip \in {IP(OverlayX, "/32"), IP(OverlayX, "bare"), IP(OverlayX, "/24"), NoIP}}
    \cup {AgentCandidate("b", KeyOf("b"), IP(OverlayX, "/32"), "ep_b", FALSE),
          AgentCandidate("b", "", IP(OverlayX, "/32"), "ep_b", TRUE),
          AgentCandidate("b", KeyOf("b"), IP(OverlayX, "/32"), "", TRUE)}

\* Node "c", registered after "b": on the address of "b" or on its own.
SecondCandidates ==
    {FullCandidate("c", ip) :
        ip \in {IP(OverlayX, "/32"), IP(OverlayY, "/32")}}

CandidateLists ==
    {<<>>} \cup {<<b>> : b \in FirstCandidates}
           \cup {<<b, c>> : b \in FirstCandidates, c \in SecondCandidates}

\* The syncconf step and the first route step may fail. No direct probe of
\* this node is answered, so the ticks report no success to the controller.
ApplyFailSteps == {0, 1, 4}

NextAgent ==
    \/ \E peers \in CandidateLists : AgentCandidates(TRUE, peers)
    \/ AgentCandidates(FALSE, <<>>)
    \/ \E failStep \in ApplyFailSteps : AgentDirectTick({}, {}, failStep)

\* The agent holds the server configuration the controller serves.
InitAgent ==
    /\ Init
    /\ cfgWGApply = FALSE
    /\ cfgCIDR = CidrOverlay
    /\ cfgServerSet = (agtCfg.serverPublicKey # "")
    /\ supPc = "none"
    /\ cfgP2PReadyMode = DefaultP2PReadyMode

SpecAgent == InitAgent /\ [][NextAgent]_vars

\* ------------------------------------------------------------------------
\* Specification of the keepalive choice: NAT classes and unset values
\* ------------------------------------------------------------------------
\* nat_type as candidates carry it: never probed (""), the classes of the
\* STUN probe, and a value the agent does not know.
NatClasses == {"", NATTypeSymmetric, NATTypeUnknown, NATTypeConeOrRestricted, "open"}

\* Node configurations with each of the three direct keepalive values set or
\* not set: ApplyDefaults replaces 0, so a value that is not set in Run is a
\* negative one. The generic keepalive is 25 s, the direct one 30 s when set.
KeepaliveCfgChoices ==
    {[NodeCfgDefault EXCEPT !.directKeepaliveSec = d,
                            !.directKeepaliveSymmetricSec = s,
                            !.directKeepaliveUnknownSec = u] :
        d \in {-1, 30},
        s \in {-1, DefaultDirectKeepaliveSymmetricSec},
        u \in {-1, DefaultDirectKeepaliveUnknownSec}}

KeepaliveCandidateLists ==
    {<<>>}
    \cup {<<[FullCandidate("b", IP(OverlayX, "/32")) EXCEPT !.natType = t]>> :
             t \in NatClasses}
    \cup {<<[FullCandidate("b", IP(OverlayX, "/32")) EXCEPT !.natType = t],
            [FullCandidate("c", IP(OverlayY, "/32")) EXCEPT !.natType = NATTypeSymmetric]>> :
             t \in NatClasses}

InitKeepalive ==
    /\ InitBase(KeepaliveCfgChoices)
    /\ reg = <<>>
    /\ regFile = <<>>
    /\ wgDump = [k \in Keys |-> ""]
    /\ cfgWGApply = FALSE
    /\ cfgCIDR = CidrOverlay
    /\ cfgServerSet
    /\ supPc = "none"
    /\ cfgP2PReadyMode = DefaultP2PReadyMode

NextKeepalive ==
    \/ \E peers \in KeepaliveCandidateLists : AgentCandidates(TRUE, peers)
    \/ \E failStep \in {0, 1} : AgentDirectTick({}, {}, failStep)

SpecKeepalive == InitKeepalive /\ [][NextKeepalive]_vars

\* ------------------------------------------------------------------------
\* Specification of node serve: supervisor, run loop and health probes
\* ------------------------------------------------------------------------
\* health_check_failures as set in the file; zero becomes the default.
HealthFailureChoices == {1, 2, DefaultHealthCheckFailures}

ServeCandidateLists == {<<>>, <<FullCandidate("b", IP(OverlayX, "/32"))>>}

ServeCfgChoices ==
    {[NodeConfig("auto", set, TRUE) EXCEPT !.healthCheckFailures = n] :
        n \in HealthFailureChoices, set \in BOOLEAN}

InitServe ==
    /\ InitBase(ServeCfgChoices)
    /\ reg = <<>>
    /\ regFile = <<>>
    /\ wgDump = [k \in Keys |-> ""]
    /\ cfgWGApply = FALSE
    /\ cfgCIDR = CidrOverlay
    /\ supPc = "load"
    /\ cfgP2PReadyMode = DefaultP2PReadyMode

NextServe ==
    \/ SupLoad
    \/ \E netOK \in BOOLEAN : SupSync(netOK)
    \/ \E failStep \in 0..2 : SupUp(failStep)
    \/ \E regOK, fetchOK \in BOOLEAN : RunStart(regOK, fetchOK)
    \/ \E ok \in BOOLEAN : RunHealth(ok)
    \/ RunCancelled
    \/ Cancel
    \/ SupRunExit
    \/ SupRetry
    \/ \E peers \in ServeCandidateLists : AgentCandidates(TRUE, peers)
    \/ AgentDirectTick({}, {}, 0)

SpecServe == InitServe /\ [][NextServe]_vars

\* ------------------------------------------------------------------------
\* Specification of direct-path set-up: the agents of "a" and "b" and the hub
\* ------------------------------------------------------------------------
\* The run loop of an agent is one goroutine: it has one request in flight at
\* most, so each agent has a handler of its own at the controller.
HandlerOf(id) == IF id = AgentID THEN "h1" ELSE "h2"

\* client.Candidates(ctx, nodeID): the request reaches the controller.
AgentFetch(id) ==
    /\ hresp[HandlerOf(id)].status = 0
    /\ CandidatesStart(HandlerOf(id), CandidatesRequest(id))

\* candidates = resp.Peers on node "a"
AgentCandidatesRecv ==
    /\ UNCHANGED <<stunVars, fnVars>>
    /\ runPc = "running"
    /\ hpc[HandlerOf(AgentID)] = "idle"
    /\ hreq[HandlerOf(AgentID)] = CandidatesRequest(AgentID)
    /\ hresp[HandlerOf(AgentID)].status = 200
    /\ candidates' = hresp[HandlerOf(AgentID)].peers
    /\ hresp' = [hresp EXCEPT ![HandlerOf(AgentID)] = NoResp]
    /\ UNCHANGED <<agtCfg, activePeers, desired, wgConf, policyRoutes, applyCalls,
                   tickCands, tickNo, tickProbes, tickResults, peerVars, supVars>>
    /\ UNCHANGED <<metVars, fsVars, cfgP2PReadyMode, cfgCIDR, cfgWGApply, cfgServerSet, reg, regFile, mu, crashed, directOK, now,
                   wgDump, wgOK, hubPeers, hpc, hreq, hloc>>

\* candidates = resp.Peers on node "b"
PeerCandidatesRecv ==
    /\ UNCHANGED <<stunVars, fnVars>>
    /\ hpc[HandlerOf("b")] = "idle"
    /\ hreq[HandlerOf("b")] = CandidatesRequest("b")
    /\ hresp[HandlerOf("b")].status = 200
    /\ candidatesB' = hresp[HandlerOf("b")].peers
    /\ hresp' = [hresp EXCEPT ![HandlerOf("b")] = NoResp]
    /\ UNCHANGED <<agtCfg, candidates, activePeers, desired, wgConf, policyRoutes,
                   applyCalls, tickCands, tickNo, tickProbes, tickResults, activePeersB, supVars>>
    /\ UNCHANGED <<metVars, fsVars, cfgP2PReadyMode, cfgCIDR, cfgWGApply, cfgServerSet, reg, regFile, mu, crashed, directOK, now,
                   wgDump, wgOK, hubPeers, hpc, hreq, hloc>>

\* No request of the agent is on its way: the run loop is at its select.
AtSelect(id) == hpc[HandlerOf(id)] = "idle" /\ hresp[HandlerOf(id)].status = 0

\* The direct ticker of "a" with every probe answered.
AgentProbeTick(failStep) ==
    /\ AtSelect(AgentID)
    /\ AgentDirectTick(probeTargets(agtCfg, candidates), probeTargets(agtCfg, candidates), failStep)

\* The direct ticker of "b" with every probe answered; applyOK is the outcome
\* of ApplyPeers when it is called.
PeerProbeTick(applyOK) ==
    /\ UNCHANGED <<stunVars, fnVars>>
    /\ AtSelect("b")
    /\ LET des == buildDesired(NodeCfgDefault, candidatesB, NoPeers, NoOwners)
           delivered == probeTargets(NodeCfgDefault, candidatesB)
       IN  /\ delivered # {} => ~crashed /\ ~mu
           /\ directOK' = [directOK EXCEPT !["b"] =
                   [p \in Names |-> IF p \in delivered THEN now ELSE @[p]]]
           /\ IF ~peersEqual(activePeersB, des)
              THEN activePeersB' = IF applyOK THEN des ELSE activePeersB
              ELSE applyOK /\ UNCHANGED activePeersB
    /\ UNCHANGED <<agtCfg, candidates, activePeers, desired, wgConf, policyRoutes,
                   applyCalls, tickCands, tickNo, tickProbes, tickResults, candidatesB, supVars>>
    /\ UNCHANGED <<metVars, fsVars, cfgP2PReadyMode, cfgCIDR, cfgWGApply, cfgServerSet, reg, regFile, mu, crashed, now, wgDump,
                   wgOK, hubPeers, hpc, hreq, hloc, hresp>>

\* The direct interval (60 s) is half the readiness TTL (2 min): the clock
\* moves on by one unit only after both agents have probed at this instant.
TickPaced ==
    /\ directOK[AgentID]["b"] = now
    /\ directOK["b"][AgentID] = now
    /\ Tick

\* Both nodes are registered and the hub interface has seen a handshake of each.
DirectNode(id, host) ==
    NodeInfo(id, id, KeyOf(id), IP(1024 + host, "/32"), "", "", "", DefaultProbePort)

InitDirect ==
    /\ InitBase({NodeCfgDefault})
    /\ cfgCIDR = CidrOverlay
    /\ cfgWGApply = FALSE
    /\ cfgServerSet
    /\ supPc = "none"
    /\ reg = <<DirectNode(AgentID, 1), DirectNode("b", 2)>>
    /\ regFile = reg
    /\ wgDump = [k \in Keys |-> IF k = KeyOf("c") THEN "" ELSE "obs_" \o k]
    /\ cfgP2PReadyMode = DefaultP2PReadyMode

NextDirect ==
    \/ \E id \in {AgentID, "b"} : AgentFetch(id)
    \/ \E h \in Handlers : CandidatesBody(h)
    \/ \E h \in Handlers : CandidatesFill(h)
    \/ AgentCandidatesRecv
    \/ PeerCandidatesRecv
    \/ \E failStep \in {0, 1} : AgentProbeTick(failStep)
    \/ \E applyOK \in BOOLEAN : PeerProbeTick(applyOK)
    \/ TickPaced

\* Every ticker keeps firing, a blocked Lock is granted in the end, a handler
\* that has started runs to its reply, and an apply call succeeds again and
\* again.
FairDirect ==
    /\ \A id \in {AgentID, "b"} : SF_vars(AgentFetch(id))
    /\ \A h \in Handlers : WF_vars(CandidatesBody(h))
    /\ \A h \in Handlers : WF_vars(CandidatesFill(h))
    /\ WF_vars(AgentCandidatesRecv)
    /\ WF_vars(PeerCandidatesRecv)
    /\ SF_vars(AgentProbeTick(0))
    /\ SF_vars(PeerProbeTick(TRUE))

SpecDirect == InitDirect /\ [][NextDirect]_vars /\ FairDirect

\* ------------------------------------------------------------------------
\* The allocator over prefixes of every kind: unset, /32, /31, the overlay
\* prefix, a prefix of exactly 2^20 addresses, one of 2^21 and 10.0.0.0/8,
\* with registries that hold preset and allocated addresses.
Cidr(base, host) == [set |-> TRUE, base |-> base, host |-> host]

\* 167772160 is 10.0.0.0
PrefixChoices ==
    {CidrUnset, CidrOverlay, Cidr(1024, 0), Cidr(1024, 1),
     Cidr(167772160, 20), Cidr(167772160, 21), Cidr(167772160, 24)}

\* vpn_ip of a Register request: none, host 1 as a /32, host 2 as a /24.
PrefixPresets(cidr) ==
    {NoIP, IP(addIPv4(cidr.base, 1), "/32"), IP(addIPv4(cidr.base, 2), "/24")}

InitPrefix ==
    /\ InitWith({NodeCfgDefault}, PrefixChoices)
    /\ NoCall
    /\ reg = <<>>
    /\ regFile = <<>>
    /\ wgDump = [k \in Keys |-> ""]
    /\ cfgWGApply = FALSE
    /\ cfgServerSet
    /\ supPc = "none"
    /\ cfgP2PReadyMode = DefaultP2PReadyMode

NextPrefix ==
    \/ \E h \in OracleHandlers, n \in Names, ip \in PrefixPresets(cfgCIDR) :
          RegisterStart(h, RegisterRequest(n, "K", ip, "", "", 51900))
    \/ \E h \in OracleHandlers : RegisterLock(h)
    \/ \E h \in OracleHandlers, saveOK \in BOOLEAN : RegisterBody(h, saveOK)
    \/ \E h \in OracleHandlers : RegisterDefer(h)
    \/ \E h \in OracleHandlers, applyOK \in BOOLEAN : RegisterFill(h, applyOK)

SpecPrefix == InitPrefix /\ [][NextPrefix]_vars

\* ------------------------------------------------------------------------
\* The shared socket alone: two goroutines calling ProbeSTUN, and readLoop.
NextStun ==
    \/ \E c \in Callers, ok \in BOOLEAN : ProbeSTUN(c, ok)
    \/ \E c \in Callers, outcome \in StunOutcomes : ProbeSTUNSelect(c, outcome)
    \/ \E c \in Callers : ProbeSTUNReset(c)
    \/ \E c \in Callers : ProbeSTUNClose(c)
    \/ readLoopRead
    \/ readLoopWrite

InitStun == InitReg /\ cfgCIDR = CidrOverlay

SpecStun == InitStun /\ [][NextStun]_vars

\* ------------------------------------------------------------------------
\* Classify applied to every list of at most MaxAddrs mapped addresses.
InitClassify ==
    /\ InitWith({NodeCfgDefault}, {CidrOverlay})
    /\ reg = <<>>
    /\ regFile = <<>>
    /\ wgDump = [k \in Keys |-> ""]
    /\ cfgWGApply = FALSE
    /\ cfgServerSet
    /\ supPc = "none"
    /\ cfgP2PReadyMode = DefaultP2PReadyMode
    /\ addrs \in SeqsUpTo(MappedAddrs, MaxAddrs)
    /\ natClass = "none"
    /\ probeArgs = NoProbeArgs
    /\ probeRet = NotCalled

NextClassify == ClassifyCall

SpecClassify == InitClassify /\ [][NextClassify]_vars

\* ------------------------------------------------------------------------
\* ProbeAddr applied to every pair of address strings and every probe port.
InitProbeAddr ==
    /\ InitWith({NodeCfgDefault}, {CidrOverlay})
    /\ reg = <<>>
    /\ regFile = <<>>
    /\ wgDump = [k \in Keys |-> ""]
    /\ cfgWGApply = FALSE
    /\ cfgServerSet
    /\ supPc = "none"
    /\ cfgP2PReadyMode = DefaultP2PReadyMode
    /\ addrs = <<>>
    /\ natClass = "none"
    /\ probeArgs \in [publicAddr : AddrStrings, endpoint : AddrStrings, probePort : ProbePorts]
    /\ probeRet = NotCalled

NextProbeAddr == ProbeAddrCall

SpecProbeAddr == InitProbeAddr /\ [][NextProbeAddr]_vars

\* ------------------------------------------------------------------------
\* The endpoint observer with auto-apply on or off and applyWG failing or not.
InitObserver ==
    /\ Init
    /\ cfgServerSet
    /\ agtCfg = NodeCfgDefault
    /\ supPc = "none"
    /\ cfgP2PReadyMode = DefaultP2PReadyMode
    /\ cfgCIDR = CidrOverlay

NextObserver ==
    \/ \E h \in OracleHandlers, req \in EndpointRegisterInputs : RegisterStart(h, req)
    \/ \E h \in OracleHandlers : RegisterLock(h)
    \/ \E h \in OracleHandlers : RegisterBody(h, TRUE)
    \/ \E h \in OracleHandlers : RegisterDefer(h)
    \/ \E h \in OracleHandlers, applyOK \in BOOLEAN : RegisterFill(h, applyOK)
    \/ \E h \in OracleHandlers, req \in OracleCandidatesInputs : CandidatesStart(h, req)
    \/ \E h \in OracleHandlers : CandidatesBody(h)
    \/ \E h \in OracleHandlers : CandidatesFill(h)
    \/ \E k \in {KeyOf(n) : n \in OracleNames}, ep \in DumpEndpoints : DumpChange(k, ep)
    \/ DumpToggle

SpecObserver == InitObserver /\ [][NextObserver]_vars

\* ------------------------------------------------------------------------
\* Specification of the direct prober: probes answered or not, results
\* delivered or lost, candidates with and without a probe address
\* ------------------------------------------------------------------------
\* The agent in mode auto, in mode off, and without a probe socket.
ProbeCfgChoices ==
    {NodeCfgDefault, NodeConfig("off", TRUE, TRUE), [NodeCfgDefault EXCEPT !.probePort = -1]}

ProbeCandidate(id, vpnIP, endpoint, publicAddr, probePort, ready) ==
    [AgentCandidate(id, KeyOf(id), vpnIP, endpoint, ready)
        EXCEPT !.publicAddr = publicAddr, !.probePort = probePort]

\* Node "b": ready or not, seen by the hub or not, with or without a mapped
\* address, with or without a probe port.
ProbeFirstCandidates ==
    {ProbeCandidate("b", IP(OverlayX, "/32"), "ep_b", "", DefaultProbePort, r) : r \in BOOLEAN}
        \cup {ProbeCandidate("b", IP(OverlayX, "/32"), "", pa, DefaultProbePort, FALSE) :
                pa \in {"", "pub_b:40001"}}
        \cup {ProbeCandidate("b", IP(OverlayX, "/32"), "ep_b", "", 0, TRUE)}

ProbeSecondCandidates ==
    {ProbeCandidate("c", IP(OverlayY, "/32"), "ep_c", "", DefaultProbePort, r) : r \in BOOLEAN}

ProbeCandidateLists ==
    {<<>>} \cup {<<b>> : b \in ProbeFirstCandidates}
           \cup {<<b, c>> : b \in ProbeFirstCandidates, c \in ProbeSecondCandidates}

InitProbe ==
    /\ InitBase(ProbeCfgChoices)
    /\ reg = <<>>
    /\ regFile = <<>>
    /\ wgDump = [k \in Keys |-> ""]
    /\ cfgWGApply = FALSE
    /\ cfgCIDR = CidrOverlay
    /\ cfgServerSet
    /\ supPc = "none"
    /\ cfgP2PReadyMode = DefaultP2PReadyMode

NextProbe ==
    \/ \E peers \in ProbeCandidateLists : AgentCandidates(TRUE, peers)
    \/ AgentCandidates(FALSE, <<>>)
    \/ \E answered \in SUBSET {"b", "c"}, delivered \in SUBSET {"b", "c"}, failStep \in {0, 1} :
          AgentDirectTick(answered, delivered, failStep)

SpecProbe == InitProbe /\ [][NextProbe]_vars

\* ------------------------------------------------------------------------
\* Specification of the health ticker: agent.Run started by node run, with
\* the server fields in its file or asked of the controller
\* ------------------------------------------------------------------------
\* ApplyDefaults replaces an interval or a threshold of 0, so a value that
\* switches the health check off is a negative one.
HealthCfgChoices ==
    {NodeCfgDefault,
     NodeConfig("auto", FALSE, TRUE),
     [NodeCfgDefault EXCEPT !.healthCheckIntervalSec = -1],
     [NodeConfig("auto", FALSE, TRUE) EXCEPT !.healthCheckIntervalSec = -1],
     [NodeCfgDefault EXCEPT !.healthCheckFailures = -1],
     [NodeCfgDefault EXCEPT !.serverAllowedIPs = <<DefaultRoute>>]}

InitHealth ==
    /\ InitRun(HealthCfgChoices, {CidrOverlay})
    /\ NoCall
    /\ reg = <<>>
    /\ regFile = <<>>
    /\ wgDump = [k \in Keys |-> ""]
    /\ cfgWGApply = FALSE
    /\ cfgP2PReadyMode = DefaultP2PReadyMode
    /\ supPc = "none"
    /\ runPc = "starting"
    /\ healthC = FALSE

NextHealth ==
    \/ \E regOK, fetchOK \in BOOLEAN : RunStart(regOK, fetchOK)
    \/ \E ok \in BOOLEAN : RunHealth(ok)
    \/ RunCancelled
    \/ Cancel

SpecHealth == InitHealth /\ [][NextHealth]_vars

\* ------------------------------------------------------------------------
\* Specification of auto-apply: concurrent Registers with wg_apply on, every
\* save and every apply succeeding
\* ------------------------------------------------------------------------
InitApply ==
    /\ Init
    /\ cfgWGApply = TRUE
    /\ cfgCIDR = CidrOverlay
    /\ cfgServerSet
    /\ agtCfg = NodeCfgDefault
    /\ supPc = "none"
    /\ cfgP2PReadyMode = DefaultP2PReadyMode

NextApply ==
    \/ \E h \in Handlers, req \in RegisterInputs : RegisterStart(h, req)
    \/ \E h \in Handlers : RegisterLock(h)
    \/ \E h \in Handlers : RegisterBody(h, TRUE)
    \/ \E h \in Handlers : RegisterDefer(h)
    \/ \E h \in Handlers : RegisterFill(h, TRUE)

SpecApply == InitApply /\ [][NextApply]_vars

\* ------------------------------------------------------------------------
\* Specification of direct-path withdrawal: probes of "a" answered or not,
\* Candidates fetches of "a" that succeed or fail, the clock running freely
\* ------------------------------------------------------------------------
\* client.Candidates on node "a" returns an error after the request was
\* served: the reply is dropped and the stored list is kept.
AgentFetchFailed ==
    /\ UNCHANGED <<stunVars, fnVars>>
    /\ runPc = "running"
    /\ hpc[HandlerOf(AgentID)] = "idle"
    /\ hreq[HandlerOf(AgentID)] = CandidatesRequest(AgentID)
    /\ hresp[HandlerOf(AgentID)].status = 200
    /\ hresp' = [hresp EXCEPT ![HandlerOf(AgentID)] = NoResp]
    /\ UNCHANGED <<agtCfg, candidates, activePeers, desired, wgConf, policyRoutes, applyCalls,
                   tickCands, tickNo, tickProbes, tickResults, peerVars, supVars>>
    /\ UNCHANGED <<metVars, fsVars, cfgP2PReadyMode, cfgCIDR, cfgWGApply, cfgServerSet, reg, regFile, mu, crashed, directOK, now,
                   wgDump, wgOK, hubPeers, hpc, hreq, hloc>>

\* The direct ticker of "a": each probe is acknowledged or times out, and the
\* result of an acknowledged probe reaches the controller.
AgentAnyProbeTick(answered, failStep) ==
    /\ AtSelect(AgentID)
    /\ AgentDirectTick(answered, answered, failStep)

NextWithdraw ==
    \/ \E id \in {AgentID, "b"} : AgentFetch(id)
    \/ \E h \in Handlers : CandidatesBody(h)
    \/ \E h \in Handlers : CandidatesFill(h)
    \/ AgentCandidatesRecv
    \/ AgentFetchFailed
    \/ PeerCandidatesRecv
    \/ \E answered \in SUBSET {"b"}, failStep \in {0, 1} : AgentAnyProbeTick(answered, failStep)
    \/ \E applyOK \in BOOLEAN : PeerProbeTick(applyOK)
    \/ Tick

\* Both tickers of "a" keep firing and its apply call succeeds again and
\* again, a handler that has started runs to its reply, and a Candidates call
\* of "a" returns, with the list or with an error.
FairWithdraw ==
    /\ SF_vars(AgentFetch(AgentID))
    /\ \A h \in Handlers : WF_vars(CandidatesBody(h))
    /\ \A h \in Handlers : WF_vars(CandidatesFill(h))
    /\ WF_vars(AgentCandidatesRecv \/ AgentFetchFailed)
    /\ SF_vars(\E answered \in SUBSET {"b"} : AgentAnyProbeTick(answered, 0))

SpecWithdraw == InitDirect /\ [][NextWithdraw]_vars /\ FairWithdraw

\* ------------------------------------------------------------------------
\* Properties
\* ------------------------------------------------------------------------
\* The controller holds a success x -> y aged at most the TTL.
Fresh(x, y) == directOK[x][y] # -1 /\ now - directOK[x][y] <= TTL

\* C1: whenever the controller computes the candidates of a node (Candidates or
\* Register), a peer is reported p2p_ready exactly when successes in both
\* directions are recorded and each is aged at most the TTL; the reply carries
\* the flag as computed.
C1_ReadyIffMutualFresh ==
    [][\A h \in Handlers :
         /\ ( \/ (hpc[h] = "cand_body" /\ hpc'[h] = "cand_fill")
              \/ (hpc[h] = "reg_body" /\ hpc'[h] = "reg_fill") )
            => \A i \in 1..Len(hloc'[h].peers) :
                  LET p == hloc'[h].peers[i]
                      a == hloc'[h].nodeID
                  IN  p.p2pReady <=> (Fresh(a, p.id) /\ Fresh(p.id, a))
         /\ (hpc[h] \in {"cand_fill", "reg_fill"} /\ hresp'[h].status = 200)
            => \A i \in 1..Len(hresp'[h].peers) :
                  hresp'[h].peers[i].p2pReady = hloc[h].peers[i].p2pReady
      ]_vars

\* A pair whose two successes were fresh together is computed not ready after
\* more than the TTL has passed.
C1_Witness ==
    \E h \in Handlers :
        /\ hpc[h] = "cand_fill"
        /\ \E i \in 1..Len(hloc[h].peers) :
              LET p == hloc[h].peers[i]
                  a == hloc[h].nodeID
              IN  /\ ~p.p2pReady
                  /\ directOK[a][p.id] # -1
                  /\ directOK[p.id][a] # -1
                  /\ directOK[a][p.id] - directOK[p.id][a] \in -TTL..TTL
                  /\ now - directOK[a][p.id] > TTL

\* The endpoint the hub's dump holds for a public key ("" when it holds none).
ObservedEndpoint(k) ==
    IF k \notin DOMAIN wgDump THEN ""
    ELSE IF wgDump[k] \in {"", "(none)", "0.0.0.0:0", "[::]:0"} THEN ""
    ELSE wgDump[k]

NoStunEndpoint ==
    \A h \in Handlers : \A i \in 1..Len(hresp[h].peers) :
        hresp[h].peers[i].endpoint \notin StunAddrs

\* C10: a Candidates or Register reply built while the hub's dump is readable
\* carries, for every candidate whose public key has an endpoint in the dump,
\* that observed endpoint; and no reply ever carries a STUN-mapped address in
\* the endpoint field of a candidate.
C10_EndpointAuthority ==
    [][/\ \A h \in Handlers :
            (hpc[h] \in {"cand_fill", "reg_fill"} /\ hresp'[h].status = 200 /\ wgOK)
            => \A i \in 1..Len(hresp'[h].peers) :
                  LET p == hresp'[h].peers[i]
                  IN  ObservedEndpoint(p.pubKey) # ""
                          => p.endpoint = ObservedEndpoint(p.pubKey)
       /\ NoStunEndpoint'
      ]_vars

\* A reply carries the observed endpoint of a node that advertised another
\* endpoint and whose STUN-mapped address is on record.
C10_Witness ==
    \E h \in Handlers :
        /\ hpc[h] = "idle"
        /\ hresp[h].status = 200
        /\ \E i \in 1..Len(hresp[h].peers) :
              /\ hresp[h].peers[i].endpoint = "obs:40001"
              /\ hresp[h].peers[i].publicAddr \in StunAddrs
              /\ \E j \in 1..Len(reg) :
                    /\ reg[j].id = hresp[h].peers[i].id
                    /\ reg[j].endpoint = "adv:51820"

\* The addresses of the configured prefix that a node may be given.
HostAddrs(cidr) == {cidr.base + i : i \in 1..(Pow2(cidr.host) - 2)}

\* C4: after any sequence of Register calls, presets included, no two
\* registered nodes hold the same overlay address.
C4_UniqueOverlay ==
    \A i, j \in 1..Len(reg) :
        i # j => reg[i].vpnIP.addr # reg[j].vpnIP.addr

\* C5: with no preset overlay, the overlay addresses held by the registered
\* nodes are pairwise distinct host addresses of the configured prefix in /32
\* form, never its network or broadcast address; every 200 reply carries such
\* an address.
C5_AllocUniqueInPrefix ==
    /\ \A i, j \in 1..Len(reg) : i # j => reg[i].vpnIP.addr # reg[j].vpnIP.addr
    /\ \A i \in 1..Len(reg) :
          /\ reg[i].vpnIP.sfx = "/32"
          /\ reg[i].vpnIP.addr \in HostAddrs(cfgCIDR)
          /\ reg[i].vpnIP.addr # cfgCIDR.base
          /\ reg[i].vpnIP.addr # cfgCIDR.base + Pow2(cfgCIDR.host) - 1
    /\ \A h \in Handlers :
          hresp[h].status = 200 =>
              /\ hresp[h].vpnIP.sfx = "/32"
              /\ hresp[h].vpnIP.addr \in HostAddrs(cfgCIDR)

\* Two nodes were given addresses by the allocator.
C5_Witness ==
    /\ Len(reg) >= 2
    /\ \E h \in Handlers : hresp[h].status = 200 /\ hresp[h].vpnIP # reg[1].vpnIP

\* Some handler is inside handleRegister and holds the registry lock.
LockHeldByActive ==
    \E g \in Handlers : hpc[g] # "idle" /\ hloc[g].held = 1

C7_UnlockBeforeErrorReply ==
    \A h \in Handlers :
        (hresp[h].status = 400 /\ hresp[h].err = "alloc") => hloc[h].held = 0

\* A step of the direct ticker.
TickStep == tickNo' # tickNo

\* C2: on every reconcile tick, each entry of desired comes from a candidate
\* of the list the tick used that has p2p_ready = true, a non-empty endpoint, a
\* non-empty public key and a non-empty overlay address, and carries that
\* candidate's key and endpoint.
C2_InjectOnlyIfComplete ==
    [][TickStep =>
        \A id \in DOMAIN desired' :
            \E i \in 1..Len(candidates) :
                /\ candidates[i].id = id
                /\ candidates[i].p2pReady
                /\ candidates[i].endpoint # ""
                /\ candidates[i].pubKey # ""
                /\ candidates[i].vpnIP # NoIP
                /\ desired'[id].publicKey = candidates[i].pubKey
                /\ desired'[id].endpoint = candidates[i].endpoint]_vars

\* A tick kept the complete candidate "c" and left out "b", which lacked a key.
C2_Witness ==
    /\ tickNo > 0
    /\ Len(tickCands) = 2
    /\ tickCands[1].pubKey = ""
    /\ DOMAIN desired = {"c"}

\* The hub section with every configured allowed address is in conf.
HubInConf(conf) ==
    \E i \in 1..Len(conf) :
        /\ conf[i].publicKey = agtCfg.serverPublicKey
        /\ conf[i].endpoint = agtCfg.serverEndpoint
        /\ conf[i].allowedIPs = agtCfg.serverAllowedIPs

AllowedHost(peer) == peer.allowedIPs[1].addr

FirstClaim(cands, i) ==
    /\ cands[i].p2pReady
    /\ cands[i].vpnIP # NoIP
    /\ \A k \in 1..(i - 1) :
          ~(/\ cands[k].p2pReady
            /\ cands[k].id # cands[i].id
            /\ normalizeHostIP(cands[k].vpnIP) = normalizeHostIP(cands[i].vpnIP))

C9_UnchangedListNoApply ==
    [][(TickStep /\ tickNo > 0 /\ candidates = tickCands) => applyCalls' = <<>>]_vars

\* C9 (amended): a reconcile tick that uses the same candidate list as the
\* tick before it makes no apply call, provided the tick before it made no
\* apply call that failed.
C9_UnchangedListNoApplyAfterSuccess ==
    [][(/\ TickStep
        /\ tickNo > 0
        /\ candidates = tickCands
        /\ \A k \in 1..Len(applyCalls) : applyCalls[k].ok) => applyCalls' = <<>>]_vars

\* A second tick on an unchanged list found its desired set applied already and
\* made no apply call.
C9_Witness ==
    /\ tickNo = 2
    /\ candidates = tickCands
    /\ DOMAIN activePeers # {}
    /\ activePeers = desired
    /\ applyCalls = <<>>

\* C11: the evidence map changes only when a DirectResult with success = true
\* and both ids stores the current time in its (source, target) entry, every
\* such request does so, every other step leaves each entry as it was, and no
\* stored instant ever moves backwards.
C11_EvidenceOnlyBySuccess ==
    [][/\ directOK' # directOK =>
            \E h \in Handlers :
                /\ hpc[h] = "dr_body"
                /\ hpc'[h] = "idle"
                /\ hreq[h].kind = "direct-result"
                /\ hreq[h].success
                /\ directOK' = [directOK EXCEPT ![hreq[h].nodeID][hreq[h].peerID] = now]
       /\ \A h \in Handlers :
            (hpc[h] = "dr_body" /\ hpc'[h] = "idle") =>
                directOK'[hreq[h].nodeID][hreq[h].peerID] = now
       /\ \A x, y \in Names : directOK'[x][y] >= directOK[x][y]]_vars

\* A failed DirectResult for a -> b was answered while the success stored for
\* a -> b at an earlier instant is still in the map.
C11_Witness ==
    /\ \E h \in Handlers :
          /\ hpc[h] = "idle"
          /\ hresp[h].status = 204
          /\ hreq[h] = DirectResultRequest("a", "b", FALSE)
    /\ directOK["a"]["b"] > 0
    /\ now > directOK["a"]["b"]

\* The number of failed probes at the end of a probe log.
RECURSIVE TrailingFailures(_)
TrailingFailures(log) ==
    IF log = <<>> \/ log[Len(log)] THEN 0
    ELSE 1 + TrailingFailures(SubSeq(log, 1, Len(log) - 1))

\* C12: the run loop has ended with the tunnel-dead error exactly when the
\* failed health probes in a row, counted from the last success, number
\* healthCheckFailures; while the loop runs the count is the length of that
\* row and is below healthCheckFailures, so a success starts the count anew.
C12_TunnelDeadExactly ==
    /\ runPc = "running" =>
          /\ healthFailures = TrailingFailures(healthLog)
          /\ healthFailures < agtCfg.healthCheckFailures
    /\ runPc = "returned" =>
          (runErr = "tunnel health check failed"
              <=> TrailingFailures(healthLog) = agtCfg.healthCheckFailures)

\* The loop ended tunnel-dead after more failed probes than the threshold in
\* all, an earlier failure having been followed by a success.
C12_Witness ==
    /\ runPc = "returned"
    /\ runErr = "tunnel health check failed"
    /\ \E i, j \in 1..Len(healthLog) : i < j /\ ~healthLog[i] /\ healthLog[j]
    /\ Cardinality({i \in 1..Len(healthLog) : ~healthLog[i]}) > agtCfg.healthCheckFailures

\* C14: under node serve, whenever agent.Run is called or its loop is entered,
\* the first time and after every tunnel-dead or other exit alike, the current
\* iteration of the supervisor has completed sync-config and then up, both
\* with success: the node configuration has the server fields and the
\* interface holds the configuration up rendered from it.
C14_RunAfterSyncAndUp ==
    [][(runPc' \in {"starting", "running"} /\ runPc' # runPc) =>
            /\ supPc' = "run"
            /\ iterLog' = <<"sync", "up">>
            /\ serverFieldsSet(agtCfg')
            /\ wgConf' = RenderSetConf(agtCfg', <<>>).conf]_vars

\* The loop runs again after a tunnel-dead exit and a failed up in between.
C14_Witness ==
    /\ runPc = "running"
    /\ supPc = "run"
    /\ {"agent exited", "wg up failed"} \subseteq errLog
    /\ iterLog = <<"sync", "up">>

\* C15: once the process context is cancelled the supervisor starts no
\* further sync, up or run; it only goes on to Stopped.
C15_NoStepAfterCancel ==
    [][ctxDone => (supPc' \in {"sync", "up", "run"} => supPc' = supPc)]_vars

\* Node x has applied a peer set holding node y with y's key and the endpoint
\* the hub observed for y.
DirectApplied(active, y) ==
    /\ y \in DOMAIN active
    /\ active[y].publicKey = KeyOf(y)
    /\ active[y].endpoint = ParseWgDumpEndpoints(wgDump)[KeyOf(y)]
    /\ active[y].endpoint # ""

\* C13: with both agents in direct mode, every probe between them answered
\* and both endpoints seen by the hub, each agent eventually holds an applied
\* peer set with the other node's key and hub-observed endpoint; on "a" the
\* interface has the matching [Peer] section.
C13_EventuallyDirect ==
    <>(/\ DirectApplied(activePeers, "b")
       /\ DirectApplied(activePeersB, AgentID)
       /\ \E i \in 1..Len(wgConf) :
             /\ wgConf[i].publicKey = KeyOf("b")
             /\ wgConf[i].endpoint = "obs_" \o KeyOf("b"))

\* Both agents have applied the other node, the clock having moved on since
\* the start.
C13_Witness ==
    /\ DirectApplied(activePeers, "b")
    /\ DirectApplied(activePeersB, AgentID)
    /\ now > 0

\* The file followed by what the handlers inside AppendCSV have still to write.
csvInTheEnd ==
    LET writers == {h \in Handlers : hpc[h] = "met_write"}
    IN  IF writers = {} THEN csv
        ELSE csv \o mbuf[CHOOSE h \in writers : TRUE]

\* Every row is whole and in one piece: the halves come in pairs of one row.
WholeRows(f) ==
    /\ Len(f) % 2 = 0
    /\ \A i \in 1..(Len(f) \div 2) :
          /\ f[2 * i - 1].part = 1
          /\ f[2 * i].part = 2
          /\ f[2 * i - 1].req = f[2 * i].req
          /\ f[2 * i - 1].row = f[2 * i].row

DataRows(f) == {i \in 1..Len(f) : f[i].part = 1 /\ f[i].req # 0}
HeaderRows(f) == {i \in 1..Len(f) : f[i].part = 1 /\ f[i].req = 0}

\* C16: under concurrent Metrics submissions at most one handler is inside
\* AppendCSV; the file, once that handler has written what it holds, is made
\* of whole rows, the first of them the only header row; and when every
\* submission has been answered the file has exactly as many data rows as
\* samples were submitted, no row twice.
C16_OneHeaderAllRows ==
    /\ Cardinality({h \in Handlers : hpc[h] \in {"met_open", "met_write", "met_defer"}}) <= 1
    /\ WholeRows(csvInTheEnd)
    /\ csvInTheEnd # <<>> => HeaderRows(csvInTheEnd) = {1}
    /\ (\A h \in Handlers : hpc[h] = "idle") =>
          /\ Cardinality(DataRows(csv)) = mtotal
          /\ \A i, j \in DataRows(csv) : i # j => csv[i] # csv[j]
          /\ mtotal > 0 => HeaderRows(csv) = {1}

\* Both handlers have answered a submission with samples and every sample
\* submitted is a row of the file.
C16_Witness ==
    /\ \A h \in Handlers : hpc[h] = "idle" /\ hresp[h].status = 204 /\ hreq[h].samples > 0
    /\ mtotal = MaxSamples
    /\ Cardinality(DataRows(csv)) = MaxSamples

\* C17: at every point of a save that runs to its end, fails at any step or is
\* cut short, the registry path holds the file it held when the save began or
\* a file with all of the new content, and a file at the path has mode 0600.
C17_AtomicReplace ==
    /\ fsPath = savePrev \/ fsPath = File(saveData, OwnerOnly)
    /\ fsPath.exists => fsPath.mode = OwnerOnly /\ fsPath.content \in DataChoices

\* A write stopped short of a longer document while the path held an earlier,
\* different document.
C17_Witness ==
    /\ savePc = "remove"
    /\ fsTmp.exists
    /\ Len(fsTmp.content) > 0
    /\ Len(fsTmp.content) < Len(saveData)
    /\ fsPath.exists
    /\ fsPath.content # saveData
    /\ fsPath = savePrev

\* C18: every entry of the desired peer set has exactly one allowed address,
\* and it is a single-host /32.
C18_AllowedIsHost32 ==
    \A id \in DOMAIN desired :
        /\ Len(desired[id].allowedIPs) = 1
        /\ desired[id].allowedIPs[1].sfx = "/32"

\* The value of the configuration, or the fallback when it is not set.
OrElse(value, fallback) == IF value > 0 THEN value ELSE fallback

\* The candidates of the latest reconcile tick that are in desired.
TickInjected == {i \in 1..Len(tickCands) : tickCands[i].id \in DOMAIN desired}

\* C19: the keepalive of a direct peer is the symmetric value for the class
\* symmetric, the unknown value for the class unknown and the direct value
\* for every other class, and the generic keepalive when that value is not
\* set.
C19_KeepaliveByClass ==
    \A i \in TickInjected :
        desired[tickCands[i].id].keepaliveSec =
            IF tickCands[i].natType = NATTypeSymmetric
            THEN OrElse(agtCfg.directKeepaliveSymmetricSec, agtCfg.keepaliveSec)
            ELSE IF tickCands[i].natType = NATTypeUnknown
            THEN OrElse(agtCfg.directKeepaliveUnknownSec, agtCfg.keepaliveSec)
            ELSE OrElse(agtCfg.directKeepaliveSec, agtCfg.keepaliveSec)

\* C19 (amended): the class symmetric and the empty class take the symmetric
\* value, the class unknown the unknown value, every other class the direct
\* value; a value that is not set gives way to the direct value, and that to
\* the generic keepalive.
C19_KeepaliveByClassOrEmpty ==
    \A i \in TickInjected :
        LET direct == OrElse(agtCfg.directKeepaliveSec, agtCfg.keepaliveSec)
        IN  desired[tickCands[i].id].keepaliveSec =
                IF tickCands[i].natType \in {"", NATTypeSymmetric}
                THEN OrElse(agtCfg.directKeepaliveSymmetricSec, direct)
                ELSE IF tickCands[i].natType = NATTypeUnknown
                THEN OrElse(agtCfg.directKeepaliveUnknownSec, direct)
                ELSE direct

\* A tick injected a peer of the empty class next to a symmetric one, with
\* the symmetric value not set and the direct value set.
C19_Witness ==
    /\ \E i \in TickInjected : tickCands[i].natType = ""
    /\ \E i \in TickInjected : tickCands[i].natType = NATTypeSymmetric
    /\ agtCfg.directKeepaliveSymmetricSec <= 0
    /\ agtCfg.directKeepaliveSec > 0
    /\ agtCfg.directKeepaliveUnknownSec > 0

\* C20: whenever the controller computes the candidates of a node, a peer is
\* reported p2p_ready under the mode either exactly when a success in at least
\* one direction is aged at most the TTL, and under the mode mutual exactly
\* when that holds of both directions.
C20_ReadyByPolicy ==
    [][\A h \in Handlers :
         ( \/ (hpc[h] = "cand_body" /\ hpc'[h] = "cand_fill")
           \/ (hpc[h] = "reg_body" /\ hpc'[h] = "reg_fill") )
            => \A i \in 1..Len(hloc'[h].peers) :
                  LET p == hloc'[h].peers[i]
                      a == hloc'[h].nodeID
                  IN  p.p2pReady <=>
                          IF cfgP2PReadyMode = "either"
                          THEN Fresh(a, p.id) \/ Fresh(p.id, a)
                          ELSE Fresh(a, p.id) /\ Fresh(p.id, a)
      ]_vars

\* C21: host 1 of the prefix belongs to the hub and is never allocated: no
\* node of the registry holds it, and the first node registered without a
\* preset overlay on an empty registry holds host 2 of the prefix, as a /32.
C21_HostOneReserved ==
    /\ \A i \in 1..Len(reg) : reg[i].vpnIP.addr # addIPv4(cfgCIDR.base, 1)
    /\ Len(reg) >= 1 => reg[1].vpnIP = IP(addIPv4(cfgCIDR.base, 2), "/32")

\* The addresses held by the nodes of the registry, in whatever form written.
HeldAddrs == {reg[i].vpnIP.addr : i \in {j \in 1..Len(reg) : reg[j].vpnIP # NoIP}}

\* The prefix has a host address, network and broadcast excluded, nobody holds.
HasFreeHost ==
    \E i \in 1..(Pow2(cfgCIDR.host) - 2) : cfgCIDR.base + i \notin HeldAddrs

\* C22: a Register that asks the allocator for an address is refused when the
\* prefix is not configured, spans more than 2^20 addresses, or has no free
\* host address; otherwise it is given, as a /32, a host address of the
\* prefix nobody holds such that every lower host address is held.
C22_LowestFreeOrError ==
    [][\A h \in Handlers :
          (/\ hpc[h] = "reg_body"
           /\ hloc[h].assigned = NoIP
           /\ (hloc'[h] # hloc[h] \/ hresp'[h] # hresp[h]))
          => IF \/ ~cfgCIDR.set
                \/ Pow2(cfgCIDR.host) > 1048576
                \/ ~HasFreeHost
             THEN /\ hresp'[h].status = 400
                  /\ reg' = reg
             ELSE LET got == hloc'[h].assigned
                      k == got.addr - cfgCIDR.base
                  IN  /\ hresp'[h].status # 400
                      /\ got.sfx = "/32"
                      /\ k \in 1..(Pow2(cfgCIDR.host) - 2)
                      /\ got.addr \notin HeldAddrs
                      /\ \A i \in 1..(k - 1) : cfgCIDR.base + i \in HeldAddrs
                      /\ \E i \in 1..Len(reg') : reg'[i].vpnIP = got]_vars

\* In the prefix of 2^20 addresses, hosts 1 and 2 are held by nodes that
\* registered with them and a third node was allocated host 3.
C22_Witness ==
    /\ cfgCIDR.host = 20
    /\ \E h \in Handlers :
          /\ hreq[h].vpnIP = NoIP
          /\ hresp[h].status = 200
          /\ hresp[h].vpnIP = IP(cfgCIDR.base + 3, "/32")

\* The caller's STUN transaction is in flight: its pipe is installed and its
\* call waits in the select.
InFlight(c) == spc[c] = "inflight"

\* The step is caller c entering ProbeSTUN.
Starts(c) == spc[c] = "idle" /\ scall'[c] = scall[c] + 1

\* C23: at most one STUN transaction is in flight on the shared socket; a
\* ProbeSTUN entered while one is in flight returns an error in that same
\* step and leaves the writer, the other caller and readLoop as they were;
\* and the writer is held only by a call that has not returned, so that a
\* ProbeSTUN entered when no call is running goes in flight unless its
\* arguments are bad.
C23_OneStunInFlight ==
    /\ [](/\ \A c, d \in Callers : InFlight(c) /\ InFlight(d) => c = d
          /\ \A c \in Callers : InFlight(c) => stunWriter = Pipe(c, scall[c])
          /\ stunWriter # NoPipe =>
                spc[stunWriter.by] # "idle" /\ scall[stunWriter.by] = stunWriter.no)
    /\ [][\A c \in Callers :
            /\ (Starts(c) /\ \E d \in Callers : InFlight(d)) =>
                  /\ sres'[c] \in {"busy", "error"}
                  /\ spc'[c] = "idle"
                  /\ stunWriter' = stunWriter
                  /\ rlW' = rlW
                  /\ \A d \in Callers \ {c} :
                        spc'[d] = spc[d] /\ sres'[d] = sres[d] /\ spipe'[d] = spipe[d]
            /\ (Starts(c) /\ \A d \in Callers \ {c} : spc[d] = "idle") =>
                  \/ sres'[c] = "error" /\ spc'[c] = "idle"
                  \/ InFlight(c)']_vars

\* g2 was refused while the only transaction of g1 was in flight, that
\* transaction timed out and its call returned, and the next call of g2 is
\* in flight.
C23_Witness ==
    /\ scall["g1"] = 1 /\ spc["g1"] = "idle" /\ sres["g1"] = "timeout"
    /\ scall["g2"] = 2 /\ InFlight("g2") /\ sres["g2"] = "busy"

\* C24: what Classify returned is unknown for fewer than two mapped
\* addresses, cone_or_restricted for two or more that are all identical, and
\* symmetric for two or more of which some two differ.
C24_ClassifyByAddresses ==
    natClass # "none" =>
        LET n == Len(addrs)
            differ == \E i, j \in 1..n : addrs[i] # addrs[j]
        IN  /\ n < 2 => natClass = "unknown"
            /\ (n >= 2 /\ ~differ) => natClass = "cone_or_restricted"
            /\ (n >= 2 /\ differ) => natClass = "symmetric"

\* Classify was given three addresses of which only the last differs.
C24_Witness ==
    /\ natClass = "symmetric"
    /\ Len(addrs) = 3
    /\ addrs[1] = addrs[2]
    /\ addrs[3] # addrs[1]

C26_DumpFailureNotFatal ==
    [][\A h \in Handlers :
          /\ (hpc[h] = "cand_fill" /\ hpc'[h] = "idle" /\ ~wgOK) =>
                /\ hresp'[h].status = 200
                /\ hresp'[h].peers = hloc[h].peers
          /\ (hpc[h] = "reg_fill" /\ hpc'[h] = "idle" /\ ~wgOK) =>
                \/ /\ hresp'[h].status = 200
                   /\ hresp'[h].peers = hloc[h].peers
                \/ /\ cfgWGApply
                   /\ hresp'[h].status = 500
                   /\ hresp'[h].err = "apply"]_vars

\* The dump cannot be read, the kernel knows an endpoint for a candidate's
\* key, and the reply carries that candidate with the endpoint it advertised.
C26_Witness ==
    /\ ~wgOK
    /\ \E h \in Handlers :
          /\ hpc[h] = "idle"
          /\ hreq[h].kind = "candidates"
          /\ hresp[h].status = 200
          /\ \E i \in 1..Len(hresp[h].peers) :
                /\ hresp[h].peers[i].endpoint = "adv:51820"
                /\ wgDump[hresp[h].peers[i].pubKey] = "obs:40001"

\* C27: an agent in direct mode off has made no apply call, has sent no
\* probe and submitted no DirectResult, holds no last-applied direct peer,
\* and its interface carries the hub section alone with no policy route; the
\* controller holds no success reported by it.
C27_OffStaysOnRelay ==
    agtCfg.directMode = "off" =>
        /\ applyCalls = <<>>
        /\ tickProbes = <<>>
        /\ tickResults = <<>>
        /\ activePeers = NoPeers
        /\ wgConf = RenderSetConf(agtCfg, <<>>).conf
        /\ policyRoutes = {}
        /\ \A p \in Names : directOK[AgentID][p] = -1

\* The direct ticker of an agent in mode off has fired on a list with a
\* ready candidate that has a key, an endpoint and a probe address.
C27_Witness ==
    /\ agtCfg.directMode = "off"
    /\ tickNo > 0
    /\ \E i \in 1..Len(tickCands) :
          /\ tickCands[i].p2pReady
          /\ tickCands[i].endpoint # ""
          /\ tickCands[i].probePort > 0

\* The agent holds the hub's public key, endpoint and allowed addresses.
ServerKnown(cfg) ==
    /\ cfg.serverPublicKey # ""
    /\ cfg.serverEndpoint # ""
    /\ cfg.serverAllowedIPs # <<>>

\* The apply calls of the tick just made are one call that carries exactly the
\* peers of desired, and activePeers became desired when the call succeeded
\* and stayed as it was when it failed.
OneApplyOfDesired ==
    /\ Len(applyCalls') = 1
    /\ Len(applyCalls'[1].peers) = Cardinality(DOMAIN desired')
    /\ {applyCalls'[1].peers[i] : i \in 1..Len(applyCalls'[1].peers)}
          = {desired'[k] : k \in DOMAIN desired'}
    /\ activePeers' = IF applyCalls'[1].ok THEN desired' ELSE activePeers

\* The statement as written: every reconcile tick whose desired set differs
\* from the last-applied set makes exactly one apply call carrying it.
C28_ApplyOnEveryDifference ==
    [][(tickNo' # tickNo /\ desired' # activePeers) => OneApplyOfDesired]_vars

\* C28: on a reconcile tick of an agent that holds the hub's public key,
\* endpoint and allowed addresses, when the desired set differs from the
\* last-applied set exactly one apply call is made and it carries the desired
\* set, the last-applied set becomes the desired set if the call succeeded
\* and is unchanged if it failed; when the two sets are equal no call is made;
\* and a tick that follows a failed apply with the same desired set makes the
\* call again.  An agent that does not hold them makes no apply call.
C28_ApplyOncePerDifference ==
    [][tickNo' # tickNo =>
          IF ServerKnown(agtCfg)
          THEN /\ IF desired' # activePeers THEN OneApplyOfDesired
                  ELSE applyCalls' = <<>> /\ activePeers' = activePeers
               /\ (applyCalls # <<>> /\ ~applyCalls[1].ok /\ desired' = desired)
                     => OneApplyOfDesired
          ELSE applyCalls' = <<>> /\ activePeers' = activePeers]_vars

\* A later tick of an agent that holds the hub's configuration made one apply
\* call carrying a desired set of two peers; the call succeeded, the interface
\* carries them and the last-applied set is the desired set.
C28_Witness ==
    /\ ServerKnown(agtCfg)
    /\ tickNo = 2
    /\ Cardinality(DOMAIN desired) = 2
    /\ Len(applyCalls) = 1
    /\ applyCalls[1].ok
    /\ activePeers = desired
    /\ wgConf = RenderSetConf(agtCfg, applyCalls[1].peers).conf

\* The candidate list the controller would serve the agent at this instant.
ServedNow == fillObservedEndpoints(peersLocked(AgentID), wgOK, wgDump)

\* C29: the desired set built on a reconcile tick is the one computed from
\* the candidate list the controller serves at that tick, so a readiness or
\* endpoint change at the controller shows in the very next tick.
C29_DesiredFromFreshList ==
    [][tickNo' # tickNo =>
          desired' = buildDesired(agtCfg, ServedNow, NoPeers, NoOwners)]_vars

\* The number of entries of a sequence that satisfy a test.
CountOf(seq, Test(_)) == Cardinality({i \in 1..Len(seq) : Test(seq[i])})

\* The tick just made sent exactly n probes to the candidate and submitted
\* exactly n DirectResults for it.
ProbedTimes(cand, n) ==
    /\ CountOf(tickProbes', LAMBDA id : id = cand.id) = n
    /\ CountOf(tickResults', LAMBDA r : r.peer = cand.id) = n

\* The statement as written: every reconcile tick sends one probe to each
\* candidate of the list and submits one DirectResult for it.
C30_ProbeEveryCandidate ==
    [][tickNo' # tickNo =>
          \A i \in 1..Len(tickCands') : ProbedTimes(tickCands'[i], 1)]_vars

\* The agent can probe the candidate: its direct mode is not off, it has its
\* probe socket, the candidate has a positive probe port and its public
\* address or its endpoint names a host.
CanProbe(cfg, cand) ==
    /\ cfg.directMode # "off"
    /\ cfg.probePort > 0
    /\ cand.probePort > 0
    /\ (cand.publicAddr # "" \/ cand.endpoint # "")

\* C30: on every reconcile tick the agent sends exactly one direct probe to
\* each candidate of its list that it can probe, ready or not, and submits
\* exactly one DirectResult for it, a success when the probe was answered and
\* a failure when it was not; it sends no probe to and submits no result for
\* any other candidate, and none for a node that is not in the list.
C30_OneProbeOneResult ==
    [][tickNo' # tickNo =>
          /\ \A i \in 1..Len(tickCands') :
                ProbedTimes(tickCands'[i], IF CanProbe(agtCfg, tickCands'[i]) THEN 1 ELSE 0)
          /\ \A i \in 1..Len(tickProbes') :
                \E k \in 1..Len(tickCands') : tickCands'[k].id = tickProbes'[i]
          /\ \A i \in 1..Len(tickResults') :
                \E k \in 1..Len(tickCands') : tickCands'[k].id = tickResults'[i].peer]_vars

\* A tick on a list of two candidates that are not ready, the first known by
\* its mapped address only: both were probed, one probe was answered and the
\* other was not, and one result of each kind was submitted.
C30_Witness ==
    /\ Len(tickCands) = 2
    /\ ~tickCands[1].p2pReady
    /\ ~tickCands[2].p2pReady
    /\ tickCands[1].endpoint = ""
    /\ tickProbes = <<tickCands[1].id, tickCands[2].id>>
    /\ Len(tickResults) = 2
    /\ tickResults[1].success
    /\ ~tickResults[2].success

\* The agent's configuration names a scoped IPv4 server overlay.
ScopedOverlay(cfg) ==
    \E i \in 1..Len(cfg.serverAllowedIPs) : cfg.serverAllowedIPs[i] \notin {NoIP, DefaultRoute}

\* C31: in the run loop the hub is probed on the health ticker exactly when
\* the health interval is positive and the configuration Run works with,
\* local or fetched at start-up, names a scoped IPv4 server overlay; a run
\* loop without health ticker never ends with tunnel-dead.
C31_ProbedUnlessOff ==
    /\ runPc = "running" =>
          (healthC <=> (agtCfg.healthCheckIntervalSec > 0 /\ ScopedOverlay(agtCfg)))
    /\ (runPc = "returned" /\ runErr = "tunnel health check failed") => healthC

\* C32: a handler of Candidates, NATProbe or DirectResult that has written
\* its reply, and a handler of Register that has written 200, does not hold
\* the registry lock; nor does a handler that is about to read the WireGuard
\* dump or to run the WireGuard apply.
C32_ReplyAndSubprocessUnlocked ==
    \A h \in Handlers :
        /\ (/\ hresp[h].status # 0
            /\ \/ hreq[h].kind \in {"candidates", "nat-probe", "direct-result"}
               \/ hreq[h].kind = "register" /\ hresp[h].status = 200)
              => hloc[h].held = 0
        /\ hpc[h] \in {"reg_fill", "cand_fill"} => hloc[h].held = 0

\* C33: the registry, in memory and in its file, holds at most one record
\* for a name, and the id of every record is its name.
C33_OneRecordPerName ==
    /\ \A i, j \in 1..Len(reg) : reg[i].name = reg[j].name => i = j
    /\ \A i \in 1..Len(reg) : reg[i].id = reg[i].name
    /\ \A i, j \in 1..Len(regFile) : regFile[i].name = regFile[j].name => i = j

\* C34: a Register handler that reaches its deferred function unlocks there
\* exactly when it has not released the lock it took, so the lock is released
\* once on every path; and the controller is never brought down by an Unlock
\* of an unlocked mutex.
C34_UnlockExactlyOnce ==
    /\ \A h \in Handlers :
          hpc[h] = "reg_defer" => (hloc[h].locked <=> hloc[h].held = 1)
    /\ ~crashed

\* C35: with auto-apply on, when no Register is under way the peer set last
\* applied to the hub interface is the one derived from the registry.
C35_HubPeersFollowRegistry ==
    (cfgWGApply /\ reg # <<>> /\ \A h \in Handlers : hpc[h] = "idle")
        => hubPeers = wgPeersOf(reg)

\* C36: the step of handleRegister that answers 400 or 500 for a missing
\* field, a failed allocation or a failed save leaves the registry in memory
\* and the registry file as they were.
C36_RefusedRegisterChangesNothing ==
    [][\A h \in Handlers :
          (/\ hresp'[h] # hresp[h]
           /\ hresp'[h].status \in {400, 500}
           /\ hresp'[h].err \in {"required", "alloc", "save"})
              => (reg' = reg /\ regFile' = regFile)]_vars

\* C37: at the end of a reconcile tick on which no apply call failed, the
\* peer sections on the node's interface are the hub and the peers of the
\* recorded last-applied set.
C37_InterfaceIsLastApplied ==
    [][(/\ tickNo' # tickNo
        /\ \A i \in 1..Len(applyCalls') : applyCalls'[i].ok)
           => \E peerList \in peersFromMap(activePeers') :
                 wgConf' = RenderSetConf(agtCfg', peerList).conf]_vars

\* The controller does not report "b" ready to "a": a success is missing in
\* one direction or is older than the TTL.
Expired == ~p2pReadyLocked(AgentID, "b")

\* C38: when the evidence for the pair a, b has aged out and is not renewed
\* any more, the agent of "a" comes to hold an applied set without "b" and
\* stays there.
C38_StalePeerWithdrawn ==
    <>[]Expired => <>[]("b" \notin DOMAIN activePeers)

\* C39: a Register without vpn_ip for a name that has a record with an
\* address leaves that address in the record and returns it.
C39_ReRegisterKeepsAddress ==
    [][\A h \in Handlers :
          (/\ hpc[h] = "reg_body"
           /\ hpc'[h] = "reg_fill"
           /\ hreq[h].vpnIP = NoIP)
              => \A i \in 1..Len(reg) :
                    (reg[i].name = hreq[h].name /\ reg[i].vpnIP # NoIP)
                       => /\ reg'[i].vpnIP = reg[i].vpnIP
                          /\ hloc'[h].assigned = reg[i].vpnIP]_vars

\* C40: a Register for a name that has a record leaves the NAT class and the
\* public address of the record as the last NATProbe set them.
C40_RegisterKeepsNATFacts ==
    [][\A h \in Handlers :
          (hpc[h] = "reg_body" /\ hpc'[h] = "reg_fill")
              => \A i \in 1..Len(reg) :
                    reg[i].name = hreq[h].name
                       => /\ reg'[i].natType = reg[i].natType
                          /\ reg'[i].publicAddr = reg[i].publicAddr]_vars

====
